---- MODULE Spec2Model ----
(***************************************************************************)
(* A model of the connection pool of postgres-pool (class Pool).  The pool *)
(* runs on the single-threaded node event loop: every action below is one  *)
(* synchronous run of the code between two suspension points (an await on  *)
(* driver I/O or on a timer), so the actions interleave but never overlap. *)
(*                                                                         *)
(* A pooled client and the id it was created for are the same value here   *)
(* (client.uniqueId).  The callers of the pool are anonymous: held[c] and  *)
(* qheld[c] count the connect() callers and the query() calls that were    *)
(* given client c and have not released it yet.                            *)
(***************************************************************************)
EXTENDS Integers, Sequences, FiniteSets, TLC

\* Bounds of the model.
PoolSize == 2
MaxIds == 4
MaxRetries == 1
MaxStartupRetries == 1
MaxFaults == 1
MaxQueries == 1
MaxLeaked == 1
ConnectFaults == 3
QueryFaults == 3

\* options.readOnlyTransactionReconnectTimeoutMillis and
\* options.connectionReconnectTimeoutMillis, in ticks of the model's clock
readOnlyTransactionReconnectTimeoutMillis == 1
connectionReconnectTimeoutMillis == 2

\* defaultOptions.idleTimeoutMillis
DefaultIdleTimeoutMillis == 10000

Ids == 1..MaxIds
Kinds == {"user", "query"}
ConnectErrors == {"starting up", "other"}
retryConnectionErrorCodes == {"ENOTFOUND", "EAI_AGAIN", "ERR_PG_CONNECT_TIMEOUT", "timeout expired"}
\* A query text is a sequence of pieces: "@", a blank, or a run of word characters
\* (\w); a name is a sequence of word pieces.  "constructor" is one of the names a
\* plain object inherits from Object.prototype.
WordPieces == {"a", "b", "constructor"}
Pieces == {"@", " "} \cup WordPieces
DigitPieces == <<"1", "2", "3", "4", "5", "6", "7", "8", "9">>
ObjectPrototype == {<<"constructor">>}
Keys == {<<"a">>, <<"b">>, <<"a", "b">>}

\* The `values` of a query: an array, or an object with the own keys `keys`, where
\* the value under key k is [value |-> k]; `undefined` is the object without keys.
ArrayValues == [positional |-> TRUE, keys |-> {}, of |-> <<[value |-> <<"0">>]>>]
ObjectValues(K) == [positional |-> FALSE, keys |-> K, of |-> [k \in K |-> [value |-> k]]]

\* The query texts and values of the pool's runs.
Texts == {<<>>, <<"@", "a">>}

Values == {ArrayValues} \cup {ObjectValues(K) : K \in {{}, {<<"a">>}, {<<"b">>}}}

QueryResults == {"ok", "error", "read-only", "not queryable"}
RetryableQueryErrors == {"read-only", "not queryable"}

VARIABLES
  idleTimeoutMillis,  \* options.idleTimeoutMillis
  retryConnectionMaxRetries,            \* options.retryConnectionMaxRetries
  reconnectOnReadOnlyTransactionError,  \* options.reconnectOnReadOnlyTransactionError
  reconnectOnConnectionError,           \* options.reconnectOnConnectionError
  reconnectOnDatabaseIsStartingError,   \* options.reconnectOnDatabaseIsStartingError
  connections,        \* Pool.connections: ids counted against poolSize
  idleConnections,    \* Pool.idleConnections
  connectionQueue,    \* Pool.connectionQueue: ids of the queued connect() calls
  isEnding,           \* Pool.isEnding
  nextId,             \* number of ids v4() has handed out
  acq,                \* per id: where the connect() call that drew the id stands
  kind,               \* per id: who made that call, connect() of a caller or _query
  attempt,            \* per id: retryAttempt of the running _createConnection
  startups,           \* per id: retries taken on the database-starting path
  lastErr,            \* per id: the error of the failed connect attempt
  hooked,             \* per client: client.errorHandler is the driver's error listener
  timer,              \* per client: the timer of client.idleTimeoutTimer is armed
  leaked,             \* per client: armed idle timers whose handle was overwritten,
                      \* counted up to MaxLeaked
  listener,           \* per id: the connection_<id> listener is registered
  waitTimer,          \* per id: the wait-deadline timer of the queued call is armed
  held,               \* per client: connect() callers holding it
  qheld,              \* per client: _query calls holding it
  released,           \* per client: some caller holds a reference it released
  misuse,             \* release() was called on a client the caller did not hold
  tries,              \* per id: driver clients created for the running connect() call
  closed,             \* per id: of these, the clients destroyed and ended after a failure
  retried,            \* per id: retryConnectionOnError events of the running call
  qFirst,             \* the error the first denied attempt of the query in flight captured
  clock,              \* time since reconnectQueryStartTime was taken, in budget units
  faults,             \* failed connect attempts, driver errors, denied queries, misuses
  budget,             \* the faults a run may have
  dropped,            \* clients emitted on connection_<id> with no listener
  endState,           \* the end() call: "none", "draining" (awaiting the removals), "done"
  qDrain,             \* per error: _query calls awaiting release(true) before the drain
  qRetry,             \* per error: _query calls between the drain and the next attempt
  result,             \* "ERR_PG_CONNECT_POOL_ENDED" when the last step was a connect()
                      \* that threw it, "" otherwise
  named               \* one pool.query(text, values) call: its arguments, and once it
                      \* ran, what it threw or passed to _query

vars == <<idleTimeoutMillis, retryConnectionMaxRetries,
          reconnectOnReadOnlyTransactionError, reconnectOnConnectionError,
          reconnectOnDatabaseIsStartingError,
          tries, closed, retried, qFirst, clock, budget, connections, idleConnections, connectionQueue, isEnding,
          nextId, acq, kind, attempt, startups, lastErr, hooked, timer, leaked,
          listener, waitTimer, held, qheld, released, misuse,
          faults, dropped, endState, qDrain, qRetry, result, named>>

\* What an operation gives besides its effect on the state: the result of the call,
\* the events it emitted on the pool and the calls it made on the driver client, in
\* order.
NoOutput == [result |-> "", ev |-> <<>>, driver |-> <<>>]

\* No pool.query call under study.
NoCall == [text |-> <<>>, values |-> ObjectValues({}), state |-> "none", result |-> "",
           sql |-> <<>>, params |-> <<>>, missing |-> <<>>]

\* The state as one record, so that the code's functions are operators on it.
Cur ==
  [idleTimeoutMillis |-> idleTimeoutMillis,
   retryConnectionMaxRetries |-> retryConnectionMaxRetries,
   reconnectOnReadOnlyTransactionError |-> reconnectOnReadOnlyTransactionError,
   reconnectOnConnectionError |-> reconnectOnConnectionError,
   reconnectOnDatabaseIsStartingError |-> reconnectOnDatabaseIsStartingError,
   tries |-> tries, closed |-> closed, retried |-> retried, qFirst |-> qFirst, clock |-> clock,
   budget |-> budget, connections |-> connections,
   idleConnections |-> idleConnections, connectionQueue |-> connectionQueue,
   isEnding |-> isEnding, nextId |-> nextId, acq |-> acq, kind |-> kind,
   attempt |-> attempt, startups |-> startups, lastErr |-> lastErr,
   hooked |-> hooked, timer |-> timer, leaked |-> leaked,
   listener |-> listener, waitTimer |-> waitTimer,
   held |-> held, qheld |-> qheld, released |-> released, misuse |-> misuse,
   faults |-> faults,
   dropped |-> dropped, endState |-> endState, qDrain |-> qDrain, qRetry |-> qRetry,
   named |-> named,
   out |-> NoOutput]

Install(S) ==
  /\ idleTimeoutMillis' = S.idleTimeoutMillis
  /\ retryConnectionMaxRetries' = S.retryConnectionMaxRetries
  /\ reconnectOnReadOnlyTransactionError' = S.reconnectOnReadOnlyTransactionError
  /\ reconnectOnConnectionError' = S.reconnectOnConnectionError
  /\ reconnectOnDatabaseIsStartingError' = S.reconnectOnDatabaseIsStartingError
  /\ tries' = S.tries
  /\ closed' = S.closed
  /\ retried' = S.retried
  /\ qFirst' = S.qFirst
  /\ clock' = S.clock
  /\ budget' = S.budget
  /\ connections' = S.connections
  /\ idleConnections' = S.idleConnections
  /\ connectionQueue' = S.connectionQueue
  /\ isEnding' = S.isEnding
  /\ nextId' = S.nextId
  /\ acq' = S.acq
  /\ kind' = S.kind
  /\ attempt' = S.attempt
  /\ startups' = S.startups
  /\ lastErr' = S.lastErr
  /\ hooked' = S.hooked
  /\ timer' = S.timer
  /\ leaked' = S.leaked
  /\ listener' = S.listener
  /\ waitTimer' = S.waitTimer
  /\ held' = S.held
  /\ qheld' = S.qheld
  /\ released' = S.released
  /\ misuse' = S.misuse
  /\ faults' = S.faults
  /\ dropped' = S.dropped
  /\ endState' = S.endState
  /\ qDrain' = S.qDrain
  /\ qRetry' = S.qRetry
  /\ result' = IF S.out.result = "ERR_PG_CONNECT_POOL_ENDED" THEN S.out.result ELSE ""
  /\ named' = S.named

Range(s) == {s[i] : i \in 1..Len(s)}

\* Array.prototype.indexOf: the first index of x in s, 0 when there is none.
IndexOf(s, x) ==
  IF x \in Range(s) THEN CHOOSE i \in 1..Len(s) : s[i] = x /\ \A j \in 1..(i - 1) : s[j] # x
  ELSE 0

\* s.splice(i, 1)
Splice(s, i) == [j \in 1..(Len(s) - 1) |-> IF j < i THEN s[j] ELSE s[j + 1]]

\* const i = s.indexOf(x); if (i > -1) s.splice(i, 1)
RemoveFirst(s, x) == IF IndexOf(s, x) > 0 THEN Splice(s, IndexOf(s, x)) ELSE s

Emit(S, e) == [S EXCEPT !.out.ev = Append(@, e)]

Result(S, r) == [S EXCEPT !.out.result = r]

\* The caller of kind k is given client c.
Give(S, c, k) ==
  IF k = "user" THEN [S EXCEPT !.held[c] = @ + 1] ELSE [S EXCEPT !.qheld[c] = @ + 1]


\* The query() call in flight has settled: its reconnectQueryStartTime is gone.
QueryDone(S) == [S EXCEPT !.qFirst = "", !.clock = 0]

\* _removeConnection that leaves client.errorHandler listening
RemoveConnectionKeepsHook(S, c) ==
  LET S1 == [S EXCEPT !.timer[c] = FALSE, !.idleConnections = RemoveFirst(@, c)]
      S2 == IF IndexOf(S.idleConnections, c) > 0
            THEN Emit(S1, "connectionRemovedFromIdlePool") ELSE S1
  IN Emit([S2 EXCEPT !.connections = RemoveFirst(@, c), !.out.driver = Append(@, "end")],
          "connectionRemovedFromPool")

(***************************************************************************)
(* Pool._removeConnection: the error hook is replaced by a no-op, the idle *)
(* timer of the client's handle cleared, the client spliced out of         *)
(* idleConnections (with connectionRemovedFromIdlePool) and its id out of  *)
(* connections, client.end() called and awaited, and then                  *)
(* connectionRemovedFromPool emitted.  What follows the await reads and    *)
(* writes no field of the pool, so the call is one step.                   *)
(***************************************************************************)
RemoveConnection(S, c) ==
  LET S1 == [S EXCEPT !.hooked[c] = FALSE, !.timer[c] = FALSE,
                      !.idleConnections = RemoveFirst(@, c)]
      S2 == IF IndexOf(S.idleConnections, c) > 0
            THEN Emit(S1, "connectionRemovedFromIdlePool") ELSE S1
  IN Emit([S2 EXCEPT !.connections = RemoveFirst(@, c), !.out.driver = Append(@, "end")],
          "connectionRemovedFromPool")

\* The listener connect() registers on connection_<w>, called with client c.
\* resolve(client) settles the call only if nothing settled it before.
ConnectionListener(S, w, c) ==
  LET S1 == Emit([S EXCEPT !.listener[w] = FALSE], "connectionRequestDequeued")
  IN IF S.acq[w] = "queued"
     THEN Give([S1 EXCEPT !.acq[w] = "handed", !.kind[w] = "user"], c, S.kind[w])
     ELSE [S1 EXCEPT !.dropped = @ \cup {c}]

\* connectionQueueEventEmitter.emit(`connection_${w}`, c)
EmitConnection(S, w, c) ==
  IF S.listener[w] THEN ConnectionListener(S, w, c)
  ELSE [S EXCEPT !.dropped = @ \cup {c}]

\* client.release with connectionQueue.pop() in place of shift()
ClientReleasePopsLast(S, c, removeConnection) ==
  IF S.isEnding \/ removeConnection THEN RemoveConnection(S, c)
  ELSE IF S.connectionQueue # <<>>
  THEN EmitConnection([S EXCEPT !.connectionQueue = SubSeq(@, 1, Len(@) - 1)],
                      S.connectionQueue[Len(S.connectionQueue)], c)
  ELSE IF S.idleTimeoutMillis > 0
  THEN Emit([S EXCEPT !.leaked[c] = IF S.timer[c] /\ @ < MaxLeaked THEN @ + 1 ELSE @,
                      !.timer[c] = TRUE,
                      !.idleConnections = Append(@, c)], "connectionIdle")
  ELSE RemoveConnection(S, c)

\* client.release that looks at the waiter queue only when it may not idle the client
ClientReleaseIdlesFirst(S, c, removeConnection) ==
  IF S.isEnding \/ removeConnection THEN RemoveConnection(S, c)
  ELSE IF S.idleTimeoutMillis > 0
  THEN Emit([S EXCEPT !.leaked[c] = IF S.timer[c] /\ @ < MaxLeaked THEN @ + 1 ELSE @,
                      !.timer[c] = TRUE,
                      !.idleConnections = Append(@, c)], "connectionIdle")
  ELSE IF S.connectionQueue # <<>>
  THEN EmitConnection([S EXCEPT !.connectionQueue = Tail(@)], Head(S.connectionQueue), c)
  ELSE RemoveConnection(S, c)

\* client.release without the isEnding test
ClientReleaseIgnoresEnding(S, c, removeConnection) ==
  IF removeConnection THEN RemoveConnection(S, c)
  ELSE IF S.connectionQueue # <<>>
  THEN EmitConnection([S EXCEPT !.connectionQueue = Tail(@)], Head(S.connectionQueue), c)
  ELSE IF S.idleTimeoutMillis > 0
  THEN Emit([S EXCEPT !.leaked[c] = IF S.timer[c] /\ @ < MaxLeaked THEN @ + 1 ELSE @,
                      !.timer[c] = TRUE,
                      !.idleConnections = Append(@, c)], "connectionIdle")
  ELSE RemoveConnection(S, c)

\* client.release without the idleTimeoutMillis test: it idles the client always
ClientReleaseAlwaysIdles(S, c, removeConnection) ==
  IF S.isEnding \/ removeConnection THEN RemoveConnection(S, c)
  ELSE IF S.connectionQueue # <<>>
  THEN EmitConnection([S EXCEPT !.connectionQueue = Tail(@)], Head(S.connectionQueue), c)
  ELSE Emit([S EXCEPT !.leaked[c] = IF S.timer[c] /\ @ < MaxLeaked THEN @ + 1 ELSE @,
                      !.timer[c] = TRUE,
                      !.idleConnections = Append(@, c)], "connectionIdle")

\* client.release(removeConnection)
ClientRelease(S, c, removeConnection) ==
  IF S.isEnding \/ removeConnection THEN RemoveConnection(S, c)
  ELSE IF S.connectionQueue # <<>>
  THEN EmitConnection([S EXCEPT !.connectionQueue = Tail(@)], Head(S.connectionQueue), c)
  ELSE IF S.idleTimeoutMillis > 0
  THEN Emit([S EXCEPT !.leaked[c] = IF S.timer[c] /\ @ < MaxLeaked THEN @ + 1 ELSE @,
                      !.timer[c] = TRUE,
                      !.idleConnections = Append(@, c)], "connectionIdle")
  ELSE RemoveConnection(S, c)

\* client.errorHandler(err): remove, and emit `error` when the removal is done.
ErrorHandler(S, c) == Emit(RemoveConnection(S, c), "error")

\* The driver client c emits `error`: its listener is client.errorHandler until
\* _removeConnection has put the no-op listener in its place.
ClientEmitError(S, c) == IF S.hooked[c] THEN ErrorHandler(S, c) ELSE S

\* Pool._createConnection up to its await of the race of client.connect() and
\* the connect timeout: a new driver client with the release and error hooks.
CreateConnection(S, id, retryAttempt) ==
  [S EXCEPT !.acq[id] = "connecting", !.attempt[id] = retryAttempt, !.hooked[id] = TRUE,
            !.lastErr[id] = "", !.tries[id] = @ + 1]

\* The locals of a connect() call that has settled.
ConnectDone(S, id) ==
  [S EXCEPT !.kind[id] = "user", !.attempt[id] = 0, !.startups[id] = 0, !.lastErr[id] = "",
            !.tries[id] = 0, !.closed[id] = 0, !.retried[id] = 0]

\* _createConnection that returns the client without announcing it
ClientConnectedSilently(S, id) ==
  Result(Give(ConnectDone([S EXCEPT !.acq[id] = "open"], id), id, S.kind[id]), "connected")

\* _createConnection after the race: connectionAddedToPool, then the client is
\* returned through connect() to the caller.
ClientConnected(S, id) ==
  LET S1 == Emit(S, "connectionAddedToPool")
  IN Result(Give(ConnectDone([S1 EXCEPT !.acq[id] = "open"], id), id, S.kind[id]), "connected")

\* The catch of _createConnection that destroys the socket but does not end the client
ConnectCatchWithoutEnd(S, id, err) ==
  [S EXCEPT !.acq[id] = "closing", !.lastErr[id] = err,
            !.out.driver = <<"connection.stream.destroy">>]

\* The catch of _createConnection up to its await of client.end(): the race was
\* lost with err.
ConnectCatch(S, id, err) ==
  [S EXCEPT !.acq[id] = "closing", !.lastErr[id] = err, !.closed[id] = @ + 1,
            !.out.driver = <<"connection.stream.destroy", "end">>]

\* The queueing branch of Pool.connect.
Enqueue(S, id) ==
  [Emit(S, "connectionRequestQueued")
     EXCEPT !.connectionQueue = Append(@, id),
            !.listener[id] = TRUE,
            !.waitTimer[id] = TRUE,
            !.acq[id] = "queued"]

\* Pool.connect with `<=` in the poolSize test (the extra connection of 1.0.2)
PoolConnectOverCap(S, k) ==
  IF S.isEnding THEN Result(S, "ERR_PG_CONNECT_POOL_ENDED")
  ELSE IF S.idleConnections # <<>>
  THEN LET c == Head(S.idleConnections)
           S1 == [S EXCEPT !.idleConnections = Tail(@), !.timer[c] = FALSE]
       IN Result(Give(Emit(S1, "idleConnectionActivated"), c, k), "client")
  ELSE LET id == S.nextId + 1
           S1 == [S EXCEPT !.nextId = id, !.kind[id] = k]
       IN IF Len(S.connections) <= PoolSize
          THEN CreateConnection([S1 EXCEPT !.connections = Append(@, id)], id, 0)
          ELSE Enqueue(S1, id)

\* Pool.connect that reads idleConnections[0] without shifting it
PoolConnectKeepsIdle(S, k) ==
  IF S.isEnding THEN Result(S, "ERR_PG_CONNECT_POOL_ENDED")
  ELSE IF S.idleConnections # <<>>
  THEN LET c == Head(S.idleConnections)
           S1 == [S EXCEPT !.timer[c] = FALSE]
       IN Result(Give(Emit(S1, "idleConnectionActivated"), c, k), "client")
  ELSE LET id == S.nextId + 1
           S1 == [S EXCEPT !.nextId = id, !.kind[id] = k]
       IN IF Len(S.connections) < PoolSize
          THEN CreateConnection([S1 EXCEPT !.connections = Append(@, id)], id, 0)
          ELSE Enqueue(S1, id)

\* Pool.connect without the isEnding test
PoolConnectIgnoresEnding(S, k) ==
  IF S.idleConnections # <<>>
  THEN LET c == Head(S.idleConnections)
           S1 == [S EXCEPT !.idleConnections = Tail(@), !.timer[c] = FALSE]
       IN Result(Give(Emit(S1, "idleConnectionActivated"), c, k), "client")
  ELSE LET id == S.nextId + 1
           S1 == [S EXCEPT !.nextId = id, !.kind[id] = k]
       IN IF Len(S.connections) < PoolSize
          THEN CreateConnection([S1 EXCEPT !.connections = Append(@, id)], id, 0)
          ELSE Enqueue(S1, id)

\* Pool.connect with idleConnections.pop() in place of shift()
PoolConnectTakesNewest(S, k) ==
  IF S.isEnding THEN Result(S, "ERR_PG_CONNECT_POOL_ENDED")
  ELSE IF S.idleConnections # <<>>
  THEN LET c == S.idleConnections[Len(S.idleConnections)]
           S1 == [S EXCEPT !.idleConnections = SubSeq(@, 1, Len(@) - 1), !.timer[c] = FALSE]
       IN Result(Give(Emit(S1, "idleConnectionActivated"), c, k), "client")
  ELSE LET id == S.nextId + 1
           S1 == [S EXCEPT !.nextId = id, !.kind[id] = k]
       IN IF Len(S.connections) < PoolSize
          THEN CreateConnection([S1 EXCEPT !.connections = Append(@, id)], id, 0)
          ELSE Enqueue(S1, id)

\* Pool.connect up to its first await, called by a caller of kind k.
PoolConnect(S, k) ==
  IF S.isEnding THEN Result(S, "ERR_PG_CONNECT_POOL_ENDED")
  ELSE IF S.idleConnections # <<>>
  THEN LET c == Head(S.idleConnections)
           S1 == [S EXCEPT !.idleConnections = Tail(@), !.timer[c] = FALSE]
       IN Result(Give(Emit(S1, "idleConnectionActivated"), c, k), "client")
  ELSE LET id == S.nextId + 1
           S1 == [S EXCEPT !.nextId = id, !.kind[id] = k]
       IN IF Len(S.connections) < PoolSize
          THEN CreateConnection([S1 EXCEPT !.connections = Append(@, id)], id, 0)
          ELSE Enqueue(S1, id)

\* The query() calls that have not settled: in connect(), holding a client, or
\* between the release of a denied attempt and the next attempt.
RECURSIVE QueryHoldersUpTo(_)
QueryHoldersUpTo(n) == IF n = 0 THEN 0 ELSE qheld[n] + QueryHoldersUpTo(n - 1)

queries ==
  Cardinality({id \in Ids : kind[id] = "query"}) + QueryHoldersUpTo(MaxIds)
    + qDrain["read-only"] + qDrain["not queryable"]
    + qRetry["read-only"] + qRetry["not queryable"]

\* The connect() call needs an id only when it neither fails nor reuses.
CanConnect == isEnding \/ idleConnections # <<>> \/ nextId < MaxIds

\* \w
IsWord(p) == p \in WordPieces \/ p \in Range(DigitPieces)

\* The length of the run of word pieces of s that starts at index i.
RECURSIVE WordRun(_, _)
WordRun(s, i) == IF i > Len(s) \/ ~IsWord(s[i]) THEN 0 ELSE 1 + WordRun(s, i + 1)

\* text.match(namedParameterFindRegExp) with the default /@(\w)+\b/g, from index i:
\* the matches from left to right, each "@" with the whole run of word pieces
\* after it (the run is taken greedily, and \b holds where it stops).
RECURSIVE MatchFrom(_, _)
MatchFrom(s, i) ==
  IF i > Len(s) THEN <<>>
  ELSE IF s[i] = "@" /\ WordRun(s, i + 1) > 0
  THEN <<SubSeq(s, i, i + WordRun(s, i + 1))>> \o MatchFrom(s, i + WordRun(s, i + 1) + 1)
  ELSE MatchFrom(s, i + 1)

\* The default getNamedParameterName: substring(1).
getNamedParameterName(namedParameterWithSymbols) == Tail(namedParameterWithSymbols)

\* Array.from(new Set(s)): the members of s in the order of their first occurrence.
RECURSIVE Unique(_)
Unique(s) ==
  IF s = <<>> THEN <<>>
  ELSE LET u == Unique(SubSeq(s, 1, Len(s) - 1))
       IN IF s[Len(s)] \in Range(u) THEN u ELSE Append(u, s[Len(s)])

\* `tokens` of Pool.query.
Tokens(text) ==
  LET tokenMatches == MatchFrom(text, 1)
  IN Unique([i \in 1..Len(tokenMatches) |-> getNamedParameterName(tokenMatches[i])])

\* `token in values`: an own key, or a key of the prototype.
In(token, values) == token \in values.keys \cup ObjectPrototype

\* values[token]
ValueOf(values, token) ==
  IF token \in values.keys THEN values.of[token] ELSE [value |-> token, inherited |-> TRUE]

\* `missingParameters` of Pool.query.
MissingParameters(text, values) == SelectSeq(Tokens(text), LAMBDA token : ~In(token, values))

\* s.replace with a pattern that lacks the \b: every "@" followed by the name is
\* replaced, whatever follows.
RECURSIVE ReplaceFromAnyPrefix(_, _, _, _)
ReplaceFromAnyPrefix(s, i, namedParameter, by) ==
  LET n == Len(namedParameter)
  IN IF i > Len(s) THEN <<>>
     ELSE IF i + n <= Len(s) /\ SubSeq(s, i, i + n) = <<"@">> \o namedParameter
     THEN by \o ReplaceFromAnyPrefix(s, i + n + 1, namedParameter, by)
     ELSE <<s[i]>> \o ReplaceFromAnyPrefix(s, i + 1, namedParameter, by)

\* s.replace(getNamedParameterReplaceRegExp(namedParameter), by) from index i, with
\* the default new RegExp(`@${namedParameter}\\b`, 'gm'): every "@" followed by the
\* name and then by no word piece is replaced, from left to right.
RECURSIVE ReplaceFrom(_, _, _, _)
ReplaceFrom(s, i, namedParameter, by) ==
  LET n == Len(namedParameter)
  IN IF i > Len(s) THEN <<>>
     ELSE IF /\ i + n <= Len(s)
             /\ SubSeq(s, i, i + n) = <<"@">> \o namedParameter
             /\ (i + n = Len(s) \/ ~IsWord(s[i + n + 1]))
     THEN by \o ReplaceFrom(s, i + n + 1, namedParameter, by)
     ELSE <<s[i]>> \o ReplaceFrom(s, i + 1, namedParameter, by)

\* The loop of Pool.query that rewrites `sql`, from token number tokenIndex on.
RECURSIVE NamedToPositional(_, _, _)
NamedToPositional(sql, tokens, tokenIndex) ==
  IF tokenIndex > Len(tokens) THEN sql
  ELSE NamedToPositional(ReplaceFrom(sql, 1, tokens[tokenIndex], <<"$", DigitPieces[tokenIndex]>>),
                         tokens, tokenIndex + 1)

\* The checks of Pool.query before it calls _query: the code of the error it throws,
\* "" when it throws none.  `values` is positional for an array and else has the
\* keys of the values object (none for no values and for an object without keys).
QueryCheck(text, values) ==
  IF values.positional THEN ""
  ELSE IF values.keys = {} THEN ""
  ELSE IF MatchFrom(text, 1) = <<>> THEN "ERR_PG_QUERY_NO_NAMED_PARAMETERS"
  ELSE IF MissingParameters(text, values) # <<>> THEN "ERR_PG_QUERY_MISSING_QUERY_PARAMETER"
  ELSE ""

\* The keys in the message of the error Pool.query throws.
QueryMissing(text, values) ==
  IF QueryCheck(text, values) = "ERR_PG_QUERY_MISSING_QUERY_PARAMETER"
  THEN MissingParameters(text, values)
  ELSE <<>>

\* The text Pool.query passes to _query.
QuerySql(text, values) ==
  IF values.positional \/ values.keys = {} THEN text
  ELSE NamedToPositional(text, Tokens(text), 1)

\* The parameters Pool.query passes to _query (none for no values).
QueryParams(text, values) ==
  IF values.positional THEN values.of
  ELSE IF values.keys = {} THEN <<>>
  ELSE [k \in 1..Len(Tokens(text)) |-> ValueOf(values, Tokens(text)[k])]

\* Pool.query up to the first await of _query.
PoolQuery(S, text, values) ==
  LET code == QueryCheck(text, values)
  IN IF code # "" THEN Result(S, code) ELSE PoolConnect(S, "query")

\* [...idleConnections].map(_removeConnection), over the copy `clients`.
RECURSIVE RemoveAll(_, _)
RemoveAll(S, clients) ==
  IF clients = <<>> THEN S
  ELSE RemoveAll(RemoveConnection(S, Head(clients)), Tail(clients))

\* drainIdleConnections that removes the first idle client only (before 3.2.8)
DrainFirstOnly(S) ==
  IF S.idleConnections = <<>> THEN S ELSE RemoveConnection(S, Head(S.idleConnections))

\* Pool.drainIdleConnections up to its await
DrainIdleConnections(S) == RemoveAll(S, S.idleConnections)

\* Pool.end: latch isEnding and drain; the call awaits the removals it started.
PoolEnd(S) ==
  LET S1 == DrainIdleConnections([S EXCEPT !.isEnding = TRUE])
  IN [S1 EXCEPT !.endState = IF @ = "none" THEN "draining" ELSE @]

\* The exception the model's error `err` stands for: its code ("" for none) and
\* the phrases its message is made of.
ErrorOf(err) ==
  CASE err = "ENOTFOUND" ->
         [code |-> "ENOTFOUND", message |-> <<"getaddrinfo", "ENOTFOUND">>]
    [] err = "ERR_PG_CONNECT_TIMEOUT" ->
         [code |-> "ERR_PG_CONNECT_TIMEOUT", message |-> <<"Timed out trying to connect to postgres">>]
    [] err = "starting up" ->
         [code |-> "57P03", message |-> <<"the database system is starting up">>]
    [] err = "timeout expired" ->
         [code |-> "", message |-> <<"timeout expired">>]
    [] err = "ECONNRESET, timeout expired" ->
         [code |-> "ECONNRESET", message |-> <<"read ECONNRESET", "timeout expired">>]
    [] err = "starting up, timeout expired" ->
         [code |-> "", message |-> <<"the database system is starting up", "timeout expired">>]
    [] err = "EAI_AGAIN, starting up" ->
         [code |-> "EAI_AGAIN", message |-> <<"the database system is starting up">>]
    [] OTHER -> [code |-> "", message |-> <<err>>]

\* message.includes(phrase)
Includes(message, phrase) == \E i \in 1..Len(message) : message[i] = phrase

\* The classification that looks at the message also when the error has a code
RetryConnectionCodeOrMessage(S, err) ==
  LET ex == ErrorOf(err)
  IN /\ S.retryConnectionMaxRetries > 0
     /\ \/ ex.code \in retryConnectionErrorCodes
        \/ \E errorCode \in retryConnectionErrorCodes : Includes(ex.message, errorCode)

\* The classification in the catch of _createConnection: `retryConnection`.
RetryConnection(S, err) ==
  LET ex == ErrorOf(err)
  IN /\ S.retryConnectionMaxRetries > 0
     /\ IF ex.code # "" THEN ex.code \in retryConnectionErrorCodes
        ELSE \E errorCode \in retryConnectionErrorCodes : Includes(ex.message, errorCode)

\* /the database system is starting up/giu.test(message)
IsStartingUp(err) == Includes(ErrorOf(err).message, "the database system is starting up")

\* The catch of connect() that rethrows without freeing the id (before 2.0.5)
ConnectThrowKeepsId(S, id) ==
  LET S1 == [S EXCEPT !.acq[id] = "failed", !.out.result = S.lastErr[id]]
  IN ConnectDone(IF S.kind[id] = "query" THEN QueryDone(S1) ELSE S1, id)

\* The catch of connect(): the id is taken out of connections and the error thrown.
ConnectThrow(S, id) ==
  LET S1 == [S EXCEPT !.connections = RemoveFirst(@, id), !.acq[id] = "failed",
                      !.out.result = S.lastErr[id]]
  IN ConnectDone(IF S.kind[id] = "query" THEN QueryDone(S1) ELSE S1, id)

\* The catch of _createConnection with `<=` in the test of retryAttempt
AfterConnectFailureOneMore(S, id, expired) ==
  IF RetryConnection(S, S.lastErr[id]) /\ S.attempt[id] <= S.retryConnectionMaxRetries
  THEN CreateConnection([Emit(S, "retryConnectionOnError") EXCEPT !.retried[id] = @ + 1],
                        id, S.attempt[id] + 1)
  ELSE IF S.reconnectOnDatabaseIsStartingError /\ IsStartingUp(S.lastErr[id])
  THEN LET S1 == Emit(S, "waitingForDatabaseToStart")
       IN IF expired THEN ConnectThrow(S1, id)
          ELSE CreateConnection([S1 EXCEPT !.startups[id] = @ + 1], id, 0)
  ELSE ConnectThrow(S, id)

\* The catch of _createConnection with the two retries in the other order
AfterConnectFailureStartingFirst(S, id, expired) ==
  IF S.reconnectOnDatabaseIsStartingError /\ IsStartingUp(S.lastErr[id])
  THEN LET S1 == Emit(S, "waitingForDatabaseToStart")
       IN IF expired THEN ConnectThrow(S1, id)
          ELSE CreateConnection([S1 EXCEPT !.startups[id] = @ + 1], id, 0)
  ELSE IF RetryConnection(S, S.lastErr[id]) /\ S.attempt[id] < S.retryConnectionMaxRetries
  THEN CreateConnection([Emit(S, "retryConnectionOnError") EXCEPT !.retried[id] = @ + 1],
                        id, S.attempt[id] + 1)
  ELSE ConnectThrow(S, id)

\* The catch of _createConnection after client.end() has settled; `expired`
\* says whether the database-startup budget is used up.
AfterConnectFailure(S, id, expired) ==
  IF RetryConnection(S, S.lastErr[id]) /\ S.attempt[id] < S.retryConnectionMaxRetries
  THEN CreateConnection([Emit(S, "retryConnectionOnError") EXCEPT !.retried[id] = @ + 1],
                        id, S.attempt[id] + 1)
  ELSE IF S.reconnectOnDatabaseIsStartingError /\ IsStartingUp(S.lastErr[id])
  THEN LET S1 == Emit(S, "waitingForDatabaseToStart")
       IN IF expired THEN ConnectThrow(S1, id)
          ELSE CreateConnection([S1 EXCEPT !.startups[id] = @ + 1], id, 0)
  ELSE ConnectThrow(S, id)

\* The timeout branch without the removal of the id from connectionQueue
WaitDeadlineKeepsQueue(S, w) ==
  LET S1 == [S EXCEPT !.waitTimer[w] = FALSE, !.listener[w] = FALSE]
  IN IF S.acq[w] = "queued"
     THEN [(IF S.kind[w] = "query" THEN QueryDone(S1) ELSE S1)
             EXCEPT !.acq[w] = "timedout", !.kind[w] = "user",
                    !.out.result = "ERR_PG_CONNECT_POOL_CONNECTION_TIMEOUT"]
     ELSE S1

\* The timeout branch that dequeues the id but never rejects
WaitDeadlineNeverRejects(S, w) ==
  [S EXCEPT !.waitTimer[w] = FALSE, !.listener[w] = FALSE,
            !.connectionQueue = RemoveFirst(@, w)]

\* The timeout branch that removes the head of connectionQueue, whoever it is
WaitDeadlineShiftsQueue(S, w) ==
  LET S1 == [S EXCEPT !.waitTimer[w] = FALSE, !.listener[w] = FALSE,
                      !.connectionQueue = IF w \in Range(@) THEN Tail(@) ELSE @]
  IN IF S.acq[w] = "queued"
     THEN [(IF S.kind[w] = "query" THEN QueryDone(S1) ELSE S1)
             EXCEPT !.acq[w] = "timedout", !.kind[w] = "user",
                    !.out.result = "ERR_PG_CONNECT_POOL_CONNECTION_TIMEOUT"]
     ELSE S1

\* The timeout branch of the race in connect(), when the deadline is reached.
WaitDeadline(S, w) ==
  LET S1 == [S EXCEPT !.waitTimer[w] = FALSE, !.listener[w] = FALSE,
                      !.connectionQueue = RemoveFirst(@, w)]
  IN IF S.acq[w] = "queued"
     THEN [(IF S.kind[w] = "query" THEN QueryDone(S1) ELSE S1)
             EXCEPT !.acq[w] = "timedout", !.kind[w] = "user",
                    !.out.result = "ERR_PG_CONNECT_POOL_CONNECTION_TIMEOUT"]
     ELSE S1

\* The test of the catch of _query without the two reconnect options
QueryDeniedWhateverThePolicy(S, res) == res \in RetryableQueryErrors

\* The test of the catch of _query: the pool reconnects on the error res.
QueryDenied(S, res) ==
  \/ res = "read-only" /\ S.reconnectOnReadOnlyTransactionError
  \/ res = "not queryable" /\ S.reconnectOnConnectionError

\* _query with the release after the try instead of in a finally: an error it does
\* not reconnect on is thrown with the client still held
QueryFinallyLeaksOnThrow(S, c, res) ==
  LET removeConnection == QueryDenied(S, res)
      S0 == [S EXCEPT !.qheld[c] = @ - 1]
      S1 == IF res = "error" THEN S0 ELSE ClientRelease(S0, c, removeConnection)
      S2 == [S1 EXCEPT !.out.driver = <<"query">> \o @]
  IN IF removeConnection THEN [S2 EXCEPT !.qDrain[res] = @ + 1]
     ELSE Result(QueryDone(S2), res)

\* _query from the settling of connection.query(), with res, to the end of its
\* finally: the release, and for an error it does not reconnect on, the throw.
QueryFinally(S, c, res) ==
  LET removeConnection == QueryDenied(S, res)
      S1 == ClientRelease([S EXCEPT !.qheld[c] = @ - 1], c, removeConnection)
      S2 == [S1 EXCEPT !.out.driver = <<"query">> \o @]
  IN IF removeConnection THEN [S2 EXCEPT !.qDrain[res] = @ + 1]
     ELSE Result(QueryDone(S2), res)

\* _query after the release of a denied attempt: the queryDenied event, the drain
\* of the idle clients, and reconnectQueryStartTime ??= process.hrtime().
QueryAfterRelease(S, e) ==
  LET S1 == Emit(S, IF e = "read-only" THEN "queryDeniedForReadOnlyTransaction"
                    ELSE "queryDeniedForConnectionError")
      S2 == DrainIdleConnections(S1)
  IN [S2 EXCEPT !.qDrain[e] = @ - 1, !.qRetry[e] = @ + 1,
                !.qFirst = IF @ = "" THEN e ELSE @]

\* _query after the drain and the wait: the budget check (`expired` says that the
\* time since reconnectQueryStartTime is over the budget of the error), then the
\* next attempt's connect().
QueryBudgetCheck(S, e, expired) ==
  LET S1 == [S EXCEPT !.qRetry[e] = @ - 1]
      R == PoolConnect(S1, "query")
  IN IF expired THEN Result(QueryDone(S1), e)
     ELSE IF R.out.result = "ERR_PG_CONNECT_POOL_ENDED" THEN QueryDone(R)
     ELSE R

----------------------------------------------------------------------------
\* The state of a new pool and of the calls on it, before the options are set.
NewPool ==
  /\ connections = <<>>
  /\ idleConnections = <<>>
  /\ connectionQueue = <<>>
  /\ isEnding = FALSE
  /\ nextId = 0
  /\ acq = [i \in Ids |-> "none"]
  /\ kind = [i \in Ids |-> "user"]
  /\ attempt = [i \in Ids |-> 0]
  /\ startups = [i \in Ids |-> 0]
  /\ lastErr = [i \in Ids |-> ""]
  /\ hooked = [i \in Ids |-> FALSE]
  /\ timer = [i \in Ids |-> FALSE]
  /\ leaked = [i \in Ids |-> 0]
  /\ listener = [i \in Ids |-> FALSE]
  /\ waitTimer = [i \in Ids |-> FALSE]
  /\ held = [i \in Ids |-> 0]
  /\ qheld = [i \in Ids |-> 0]
  /\ released = [i \in Ids |-> FALSE]
  /\ misuse = FALSE
  /\ faults = 0
  /\ tries = [i \in Ids |-> 0]
  /\ closed = [i \in Ids |-> 0]
  /\ retried = [i \in Ids |-> 0]
  /\ qFirst = ""
  /\ clock = 0
  /\ dropped = {}
  /\ endState = "none"
  /\ qDrain = [e \in RetryableQueryErrors |-> 0]
  /\ qRetry = [e \in RetryableQueryErrors |-> 0]
  /\ result = ""

Init ==
  /\ NewPool
  /\ named = NoCall
  /\ idleTimeoutMillis \in {0, DefaultIdleTimeoutMillis}
  /\ retryConnectionMaxRetries = MaxRetries
  /\ reconnectOnReadOnlyTransactionError = TRUE
  /\ reconnectOnConnectionError = TRUE
  /\ reconnectOnDatabaseIsStartingError = TRUE
  /\ budget = MaxFaults

\* pool.connect() by a caller
Connect ==
  /\ CanConnect
  /\ Install(PoolConnect(Cur, "user"))

\* pool.query(text, values): the parameter checks, then _query acquires a connection
Query(text, values) ==
  /\ QueryCheck(text, values) = "" => (CanConnect /\ queries < MaxQueries)
  /\ Install(PoolQuery(Cur, text, values))

\* client.connect() resolves: connectionAddedToPool, the client goes to the caller
ConnectSucceed(id) ==
  /\ acq[id] = "connecting"
  /\ Install(ClientConnected(Cur, id))

\* client.connect() rejects with err: the socket is destroyed, client.end() awaited
ConnectFail(id, err) ==
  /\ acq[id] = "connecting"
  /\ faults < budget
  /\ Install(ConnectCatch([Cur EXCEPT !.faults = @ + 1], id, err))

\* the connect timeout wins the race
ConnectTimeout(id) ==
  /\ acq[id] = "connecting"
  /\ faults < budget
  /\ Install(ConnectCatch([Cur EXCEPT !.faults = @ + 1], id, "ERR_PG_CONNECT_TIMEOUT"))

\* client.end() of the failed attempt settles: retry or throw
ConnectRetry(id, expired) ==
  /\ acq[id] = "closing"
  /\ expired => IsStartingUp(lastErr[id])
  /\ (IsStartingUp(lastErr[id]) /\ startups[id] >= MaxStartupRetries) => expired
  /\ Install(AfterConnectFailure(Cur, id, expired))

\* a caller releases a client it holds
Release(c, removeConnection) ==
  /\ held[c] > 0
  /\ LET S == [Cur EXCEPT !.held[c] = @ - 1, !.released[c] = TRUE]
     IN Install(ClientRelease(S, c, removeConnection))

\* a caller calls release() again on a client it has released already
ReleaseAgain(c, removeConnection) ==
  /\ released[c]
  /\ faults < budget
  /\ LET S == [Cur EXCEPT !.misuse = TRUE, !.faults = @ + 1]
     IN Install(ClientRelease(S, c, removeConnection))

\* the driver query of a _query call settles with res: release in the finally
QuerySettled(c, res) ==
  /\ qheld[c] > 0
  /\ res \in RetryableQueryErrors => faults < budget
  /\ Install(QueryFinally([Cur EXCEPT !.faults = IF res \in RetryableQueryErrors
                                                  THEN @ + 1 ELSE @], c, res))

\* _query after its release(true): queryDenied event, drain of the idle clients
QueryDrain(e) ==
  /\ qDrain[e] > 0
  /\ Install(QueryAfterRelease(Cur, e))

\* _query after the drain: the budget check, then the next attempt's connect()
QueryRetry(e, expired) ==
  /\ qRetry[e] > 0
  /\ expired \/ CanConnect
  /\ Install(QueryBudgetCheck(Cur, e, expired))

\* pool.drainIdleConnections() by a caller
Drain ==
  /\ idleConnections # <<>>
  /\ Install(DrainIdleConnections(Cur))

\* pool.end()
End == Install(PoolEnd(Cur))

\* the driver of a connected client emits `error`
DriverError(c) ==
  /\ acq[c] = "open"
  /\ hooked[c]
  /\ faults < budget
  /\ Install(ClientEmitError([Cur EXCEPT !.faults = @ + 1], c))

\* the timer of client.idleTimeoutTimer fires
IdleTimerExpiry(c) ==
  /\ timer[c]
  /\ Install(RemoveConnection([Cur EXCEPT !.timer[c] = FALSE], c))

\* an idle timer whose handle a later release overwrote fires
LeakedTimerExpiry(c) ==
  /\ leaked[c] > 0
  /\ Install(RemoveConnection([Cur EXCEPT !.leaked[c] = @ - 1], c))

\* the wait-deadline timer of the queued call w fires
WaitTimeout(w) ==
  /\ waitTimer[w]
  /\ Install(WaitDeadline(Cur, w))

\* the removals end() awaits have settled: the end() call completes
EndSettled ==
  /\ endState = "draining"
  /\ Install([Cur EXCEPT !.endState = "done"])

Next ==
  \/ Connect
  \/ \E text \in Texts, values \in Values : Query(text, values)
  \/ \E id \in Ids : ConnectSucceed(id)
  \/ \E id \in Ids, err \in ConnectErrors : ConnectFail(id, err)
  \/ \E id \in Ids : ConnectTimeout(id)
  \/ \E id \in Ids, expired \in BOOLEAN : ConnectRetry(id, expired)
  \/ \E c \in Ids, removeConnection \in BOOLEAN : Release(c, removeConnection)
  \/ \E c \in Ids, removeConnection \in BOOLEAN : ReleaseAgain(c, removeConnection)
  \/ \E c \in Ids, res \in QueryResults : QuerySettled(c, res)
  \/ \E e \in RetryableQueryErrors : QueryDrain(e)
  \/ \E e \in RetryableQueryErrors, expired \in BOOLEAN : QueryRetry(e, expired)
  \/ Drain
  \/ End
  \/ \E c \in Ids : DriverError(c)
  \/ \E c \in Ids : IdleTimerExpiry(c)
  \/ \E c \in Ids : LeakedTimerExpiry(c)
  \/ \E w \in Ids : WaitTimeout(w)
  \/ EndSettled

Spec == Init /\ [][Next]_vars


----------------------------------------------------------------------------
(***************************************************************************)
(* The connect path alone: callers connect and release, the driver fails   *)
(* connect attempts up to ConnectFaults times, with every value of         *)
(* retryConnectionMaxRetries up to MaxRetries.                             *)
(***************************************************************************)
DriverConnectErrors == ConnectErrors \cup {"ENOTFOUND"}

ConnInit ==
  /\ NewPool
  /\ named = NoCall
  /\ idleTimeoutMillis = DefaultIdleTimeoutMillis
  /\ retryConnectionMaxRetries \in 0..MaxRetries
  /\ reconnectOnReadOnlyTransactionError = TRUE
  /\ reconnectOnConnectionError = TRUE
  /\ reconnectOnDatabaseIsStartingError = TRUE
  /\ budget = ConnectFaults

ConnNext ==
  \/ Connect
  \/ \E id \in Ids : ConnectSucceed(id)
  \/ \E id \in Ids, err \in DriverConnectErrors : ConnectFail(id, err)
  \/ \E id \in Ids : ConnectTimeout(id)
  \/ \E id \in Ids, expired \in BOOLEAN : ConnectRetry(id, expired)
  \/ \E c \in Ids, removeConnection \in BOOLEAN : Release(c, removeConnection)
  \/ \E c \in Ids : IdleTimerExpiry(c)
  \/ \E w \in Ids : WaitTimeout(w)
  \/ End

ConnSpec == ConnInit /\ [][ConnNext]_vars

(***************************************************************************)
(* The query path alone: one query() call at a time, with every setting of *)
(* the two reconnect options, and a clock that runs from the moment        *)
(* reconnectQueryStartTime is taken.                                       *)
(***************************************************************************)
\* The budget with `>=` in the comparison of _query: the budget itself is over it
QueryBudgetExclusive(e) ==
  IF e = "read-only" THEN readOnlyTransactionReconnectTimeoutMillis - 1
  ELSE connectionReconnectTimeoutMillis - 1

\* The budget _query compares the elapsed time with, for the error e.
QueryBudget(e) ==
  IF e = "read-only" THEN readOnlyTransactionReconnectTimeoutMillis
  ELSE connectionReconnectTimeoutMillis

\* The clock is not followed beyond the first value over both budgets.
ClockEnd ==
  IF readOnlyTransactionReconnectTimeoutMillis > connectionReconnectTimeoutMillis
  THEN readOnlyTransactionReconnectTimeoutMillis + 1
  ELSE connectionReconnectTimeoutMillis + 1

QueryInit ==
  /\ NewPool
  /\ named = NoCall
  /\ idleTimeoutMillis = DefaultIdleTimeoutMillis
  /\ retryConnectionMaxRetries = MaxRetries
  /\ reconnectOnReadOnlyTransactionError \in BOOLEAN
  /\ reconnectOnConnectionError \in BOOLEAN
  /\ reconnectOnDatabaseIsStartingError = TRUE
  /\ budget = QueryFaults

\* pool.query() while no other query() call is in flight
QueryAlone(text, values) ==
  /\ queries = 0
  /\ Query(text, values)

\* the budget check of _query, by the clock
QueryRetryTimed(e) == QueryRetry(e, clock > QueryBudget(e))

\* time passes for the query that has taken reconnectQueryStartTime
Tick ==
  /\ qFirst # ""
  /\ clock < ClockEnd
  /\ Install([Cur EXCEPT !.clock = @ + 1])

QueryNext ==
  \/ \E text \in Texts, values \in Values : QueryAlone(text, values)
  \/ \E id \in Ids : ConnectSucceed(id)
  \/ \E c \in Ids, res \in QueryResults : QuerySettled(c, res)
  \/ \E e \in RetryableQueryErrors : QueryDrain(e)
  \/ \E e \in RetryableQueryErrors : QueryRetryTimed(e)
  \/ \E c \in Ids : IdleTimerExpiry(c)
  \/ Tick
  \/ End

QuerySpec == QueryInit /\ [][QueryNext]_vars

\* The driver settles what it was asked, the steps of _query run, time passes.
QueryFairSpec ==
  /\ QuerySpec
  /\ WF_vars(Tick)
  /\ WF_vars(\E id \in Ids : ConnectSucceed(id))
  /\ WF_vars(\E c \in Ids, res \in QueryResults : QuerySettled(c, res))
  /\ WF_vars(\E e \in RetryableQueryErrors : QueryDrain(e))
  /\ WF_vars(\E e \in RetryableQueryErrors : QueryRetryTimed(e))

\* Only a call that finds poolSize ids in connections is queued, so the calls
\* with the first poolSize ids never are.
Waiters == Ids \ (1..PoolSize)

\* "assuming timers eventually fire": while a wait-deadline timer is armed, one
\* of the armed ones fires.  A timer is armed once, so this reaches every one.
FairSpec == Spec /\ WF_vars(\E w \in Waiters : WaitTimeout(w))

----------------------------------------------------------------------------
\* The getters of Pool.
totalCount == Len(connections)

idleCount == Len(idleConnections)

waitingCount == Len(connectionQueue)

\* The callers that hold client c.
Holders(c) == held[c] + qheld[c]

\* The callers that hold some client.
RECURSIVE HoldersUpTo(_)
HoldersUpTo(n) == IF n = 0 THEN 0 ELSE Holders(n) + HoldersUpTo(n - 1)

TotalHolders == HoldersUpTo(MaxIds)

\* How many times x occurs in s.
Count(s, x) == Cardinality({i \in 1..Len(s) : s[i] = x})

----------------------------------------------------------------------------
(* C1: totalCount never exceeds poolSize, and a connect() that finds        *)
(* totalCount = poolSize (and draws an id) starts no connection: it is      *)
(* queued and connections is left as it was.                                *)
C1_TotalWithinPoolSize ==
  /\ [](totalCount <= PoolSize)
  /\ [][(totalCount = PoolSize /\ nextId' # nextId)
          => (connections' = connections /\ acq'[nextId'] = "queued")]_vars

\* connect() found the pool full and was queued
C1_Witness == totalCount = PoolSize /\ waitingCount > 0

(* C2: while no caller has released a client it did not hold, no client is  *)
(* held by two callers, and no client is both held and in idleConnections.  *)
C2_ExclusiveOwnership ==
  ~misuse =>
    \A c \in Ids :
      /\ Holders(c) <= 1
      /\ c \in Range(idleConnections) => Holders(c) = 0

\* a client released by one caller is now owned by another, a second client is idle
C2_Witness ==
  /\ ~misuse
  /\ \E c, d \in Ids : c # d /\ released[c] /\ qheld[c] = 1 /\ d \in Range(idleConnections)

(* C3: a second release() of a client leaves the pool sound: no client is   *)
(* twice in idleConnections, none is idle or handed to a waiter while a     *)
(* caller holds it, and the second release does not take idleCount above    *)
(* totalCount.                                                              *)
C3_SecondReleaseIsHarmless ==
  /\ [](\A c \in Ids : /\ Count(idleConnections, c) <= 1
                       /\ Holders(c) <= 1
                       /\ c \in Range(idleConnections) => Holders(c) = 0)
  /\ [][(~misuse /\ misuse' /\ idleCount <= totalCount) => idleCount' <= totalCount']_vars

(* C4: a handoff always goes to the waiter that was queued first: when a    *)
(* queued call is handed a client, no call that drew its id earlier is      *)
(* still queued, and it is the head of connectionQueue.                     *)
C4_HandoffIsFifo ==
  [][\A w \in Ids :
       (acq[w] = "queued" /\ acq'[w] = "handed")
         => /\ connectionQueue # <<>> /\ w = Head(connectionQueue)
            /\ \A v \in Ids : acq[v] = "queued" => w <= v]_vars

\* the first of two waiters was handed a client while the second still waits
C4_Witness ==
  \E v, w \in Ids : v < w /\ acq[v] = "handed" /\ acq[w] = "queued" /\ Holders(v) = 0


\* A release() call on client c is possible: a caller holds c, or released it before.
CanRelease(c) == Holders(c) > 0 \/ released[c]

(* C5: in every reachable state of a pool that is not ending and has a      *)
(* queued call, release() without removeConnection gives the client to the  *)
(* head of connectionQueue within the call: the head is dequeued and handed *)
(* the client, connectionRequestDequeued is emitted, and idleConnections is *)
(* not touched; every handoff step leaves idleConnections as it was.        *)
C5_ReleaseHandsToHead ==
  /\ [](\A c \in Ids :
          (CanRelease(c) /\ ~isEnding /\ connectionQueue # <<>>) =>
            LET w == Head(connectionQueue)
                R == ClientRelease(Cur, c, FALSE)
            IN /\ R.connectionQueue = Tail(connectionQueue)
               /\ R.acq[w] = "handed"
               /\ R.held[c] + R.qheld[c] = Holders(c) + 1
               /\ R.idleConnections = idleConnections
               /\ R.dropped = {}
               /\ R.out.ev = <<"connectionRequestDequeued">>)
  /\ [][\A w \in Ids :
          (acq[w] = "queued" /\ acq'[w] = "handed")
            => (idleConnections' = idleConnections /\ connectionQueue' = Tail(connectionQueue))]_vars

\* a waiter holds a handed-over client while another call is still queued
C5_Witness ==
  /\ ~isEnding
  /\ idleConnections = <<>>
  /\ \E v, w \in Ids : acq[v] = "handed" /\ acq[w] = "queued" /\ (\E c \in Ids : Holders(c) > 0)

(* C6: a queued call is settled once: by a handoff or by its deadline, and  *)
(* what settled it stays; the ids in connectionQueue are those of calls     *)
(* still pending with their listener registered, so no released client is   *)
(* emitted to a call that has timed out, and none is dropped; a deadline    *)
(* that fires, before or after a handoff, takes no client from its holder.  *)
C6_WaiterSettledOnce ==
  /\ [](/\ dropped = {}
        /\ \A w \in Range(connectionQueue) : acq[w] = "queued" /\ listener[w]
        /\ \A w \in Ids : acq[w] = "queued" => Count(connectionQueue, w) = 1
        /\ \A w \in Ids : acq[w] \in {"handed", "timedout"} => w \notin Range(connectionQueue))
  /\ [][\A w \in Ids :
          /\ acq[w] \in {"handed", "timedout"} => acq'[w] = acq[w]
          /\ (waitTimer[w] /\ ~waitTimer'[w])
               => /\ held' = held /\ qheld' = qheld
                  /\ connections' = connections /\ idleConnections' = idleConnections
                  /\ acq'[w] = IF acq[w] = "queued" THEN "timedout" ELSE acq[w]
          /\ (acq[w] = "queued" /\ acq'[w] = "handed")
               => TotalHolders' >= TotalHolders]_vars

\* one waiter timed out, another was handed a client and its deadline fired afterwards
C6_Witness ==
  \E v, w \in Ids : acq[v] = "timedout" /\ acq[w] = "handed" /\ ~waitTimer[w]

(* C7: with timers that fire, no call stays in connectionQueue forever; a  *)
(* queued call leaves the queue once, by a handoff or by failing, and never *)
(* comes back; a call is handed a client only after it was queued, and      *)
(* connect() emits connectionRequestQueued exactly when it queues the call, *)
(* the handoff connectionRequestDequeued.                                   *)
C7_QueuedEventuallyLeaves ==
  /\ []<>(\A w \in Waiters : acq[w] # "queued")
  /\ [](\A w \in Ids : acq[w] = "queued" => (w \in Waiters /\ waitTimer[w]))
  /\ [][\A w \in Ids :
          /\ (acq'[w] = "handed" /\ acq[w] # "handed") => acq[w] = "queued"
          /\ (acq'[w] = "queued" /\ acq[w] # "queued") => acq[w] = "none"
          /\ (acq[w] = "queued" /\ acq'[w] # "queued")
               => (acq'[w] \in {"handed", "timedout"} /\ w \notin Range(connectionQueue'))]_vars
  /\ [](CanConnect =>
          \A k \in Kinds :
            LET R == PoolConnect(Cur, k)
            IN ("connectionRequestQueued" \in Range(R.out.ev))
                 <=> (R.connectionQueue = Append(connectionQueue, R.nextId)
                      /\ R.nextId = nextId + 1 /\ R.acq[R.nextId] = "queued"))
  /\ [](\A c \in Ids :
          (CanRelease(c) /\ connectionQueue # <<>>) =>
            LET R == ClientRelease(Cur, c, FALSE)
            IN ("connectionRequestDequeued" \in Range(R.out.ev))
                 <=> R.acq[Head(connectionQueue)] = "handed")

\* a call was queued and has left the queue by its deadline
C7_Witness == \E w \in Ids : acq[w] = "timedout" /\ connectionQueue = <<>>

\* The fields of the pool a connect() can write.
PoolFields(S) ==
  <<S.connections, S.idleConnections, S.connectionQueue, S.nextId, S.acq, S.hooked,
    S.listener, S.waitTimer, S.timer, S.held, S.qheld, S.isEnding>>

(* C8 as stated: in a pool that is ending every connect() and every query() *)
(* fails with ERR_PG_CONNECT_POOL_ENDED.                                    *)
C8_EveryQueryFailsWithPoolEnded ==
  isEnding =>
    /\ \A k \in Kinds : PoolConnect(Cur, k).out.result = "ERR_PG_CONNECT_POOL_ENDED"
    /\ \A text \in Texts, values \in Values :
         PoolQuery(Cur, text, values).out.result = "ERR_PG_CONNECT_POOL_ENDED"

(* C8: in a pool that is ending every connect(), and every query() whose    *)
(* values pass the named-parameter checks, fails with                       *)
(* ERR_PG_CONNECT_POOL_ENDED; a query() whose values do not pass fails with *)
(* the error of the check; the failed call writes no field of the pool: no  *)
(* id is drawn or added to connections, no call is queued, no client is     *)
(* created; and isEnding, once set, stays set.                              *)
C8_AfterEndCallsFail ==
  /\ [](isEnding =>
          /\ \A k \in Kinds :
               /\ PoolConnect(Cur, k).out.result = "ERR_PG_CONNECT_POOL_ENDED"
               /\ PoolFields(PoolConnect(Cur, k)) = PoolFields(Cur)
               /\ PoolConnect(Cur, k).out.ev = <<>>
          /\ \A text \in Texts, values \in Values :
               /\ PoolQuery(Cur, text, values).out.result =
                    IF QueryCheck(text, values) = "" THEN "ERR_PG_CONNECT_POOL_ENDED"
                    ELSE QueryCheck(text, values)
               /\ PoolFields(PoolQuery(Cur, text, values)) = PoolFields(Cur)
               /\ PoolQuery(Cur, text, values).out.ev = <<>>)
  /\ [][isEnding => isEnding']_vars
  /\ [][result' = "ERR_PG_CONNECT_POOL_ENDED"
          => (isEnding /\ PoolFields(Cur)' = PoolFields(Cur))]_vars

\* a call has failed with ERR_PG_CONNECT_POOL_ENDED while a client was still held
C8_Witness ==
  /\ result = "ERR_PG_CONNECT_POOL_ENDED"
  /\ isEnding
  /\ totalCount > 0
  /\ \E c \in Ids : Holders(c) > 0

(* C9: end() removes every idle client, and while the pool is ending        *)
(* idleConnections stays empty; a release() in an ending pool removes the   *)
(* client, it neither idles it nor gives it to a queued call; once no       *)
(* caller holds a client and no connect is in flight, totalCount and        *)
(* idleCount are 0.                                                         *)
C9_EndRemovesConnections ==
  /\ [](/\ PoolEnd(Cur).idleConnections = <<>>
        /\ PoolEnd(Cur).isEnding
        /\ \A c \in Range(idleConnections) :
             c \notin Range(PoolEnd(Cur).connections) /\ ~PoolEnd(Cur).timer[c])
  /\ [](isEnding =>
          /\ idleConnections = <<>>
          /\ \A c \in Ids, removeConnection \in BOOLEAN :
               CanRelease(c) =>
                 LET R == ClientRelease(Cur, c, removeConnection)
                 IN /\ c \notin Range(R.connections)
                    /\ R.idleConnections = <<>>
                    /\ R.connectionQueue = connectionQueue
                    /\ R.acq = acq /\ R.held = held /\ R.qheld = qheld
          /\ ((\A c \in Ids : Holders(c) = 0 /\ acq[c] \notin {"connecting", "closing"})
                => (totalCount = 0 /\ idleCount = 0)))
  /\ [][isEnding' => \A w \in Ids : acq'[w] = "handed" => acq[w] = "handed"]_vars

\* the pool has ended with two clients that were connected, released and removed
C9_Witness ==
  /\ endState = "done"
  /\ ~misuse
  /\ totalCount = 0
  /\ \E c, d \in Ids :
       /\ c # d
       /\ acq[c] = "open" /\ released[c] /\ ~hooked[c]
       /\ acq[d] = "open" /\ released[d] /\ ~hooked[d]
  /\ \A c \in Ids : Holders(c) = 0

(* C10 as stated: once end() has completed no call is queued.               *)
C10_QueueRejectedOnEnd == endState = "done" => waitingCount = 0

(* C10: end() does not settle the queued calls: it leaves connectionQueue   *)
(* as it is, so waitingCount can be positive after end() has completed.     *)
(* While the pool is ending no queued call is given a client; a queued call *)
(* leaves the queue only when its own wait deadline fires.                  *)
C10_EndLeavesWaitersToTimeOut ==
  /\ [](/\ PoolEnd(Cur).connectionQueue = connectionQueue
        /\ PoolEnd(Cur).acq = acq
        /\ PoolEnd(Cur).waitTimer = waitTimer
        /\ PoolEnd(Cur).listener = listener)
  /\ [][isEnding' =>
          \A w \in Ids :
            acq[w] = "queued" =>
              \/ acq'[w] = "queued" /\ w \in Range(connectionQueue')
              \/ acq'[w] = "timedout" /\ waitTimer[w] /\ ~waitTimer'[w]]_vars

\* end() has completed and every connection is gone, yet a call is still queued
C10_Witness == endState = "done" /\ totalCount = 0 /\ waitingCount > 0

(* C11 as stated: once the pool is ending, no driver client is created and  *)
(* no connect() call gets a new connection, whether the call came after     *)
(* end() or was connecting or between two attempts when end() was called.   *)
C11_NoConnectionAfterEnd ==
  [][isEnding =>
       \A id \in Ids : /\ tries'[id] <= tries[id]
                       /\ acq'[id] = "open" => acq[id] = "open"]_vars

(* C12: a connect() call whose connection creation fails takes its id out   *)
(* of connections, once, and leaves idleConnections and connectionQueue as  *)
(* they are; the id is in connections exactly once while the call is        *)
(* connecting, so totalCount is back at what the call found, and a later    *)
(* connect() finds the place free and creates a connection.                 *)
C12_FailedConnectFreesSlot ==
  /\ [](\A id \in Ids :
          /\ acq[id] \in {"connecting", "closing"} => Count(connections, id) = 1
          /\ acq[id] = "failed" => id \notin Range(connections))
  /\ [][\A id \in Ids :
          (acq[id] = "closing" /\ acq'[id] = "failed")
            => /\ connections' = RemoveFirst(connections, id)
               /\ totalCount' = totalCount - 1
               /\ totalCount' < PoolSize
               /\ idleConnections' = idleConnections
               /\ connectionQueue' = connectionQueue]_vars
  /\ []((~isEnding /\ idleConnections = <<>> /\ nextId < MaxIds /\ totalCount < PoolSize) =>
          \A k \in Kinds :
            LET R == PoolConnect(Cur, k)
            IN /\ R.connections = Append(connections, nextId + 1)
               /\ R.acq[nextId + 1] = "connecting"
               /\ R.idleConnections = idleConnections
               /\ R.connectionQueue = connectionQueue)

\* a call has failed and later calls have filled the pool again
C12_Witness ==
  \E id, j \in Ids :
    /\ acq[id] = "failed" /\ id < j
    /\ acq[j] \in {"connecting", "open"} /\ j \in Range(connections)
    /\ totalCount = PoolSize

(* C13: every driver client whose connect attempt failed is destroyed and   *)
(* ended, once, in the step that catches the failure: while an attempt runs *)
(* all earlier clients of the call are ended, and the next attempt or the   *)
(* throw comes only after the failed client was ended.                      *)
C13_FailedAttemptIsEnded ==
  /\ [](\A id \in Ids :
          /\ acq[id] = "connecting" => (tries[id] >= 1 /\ closed[id] = tries[id] - 1)
          /\ acq[id] = "closing" => closed[id] = tries[id]
          /\ acq[id] = "connecting" =>
               \A err \in DriverConnectErrors \cup {"ERR_PG_CONNECT_TIMEOUT"} :
                 /\ ConnectCatch(Cur, id, err).out.driver = <<"connection.stream.destroy", "end">>
                 /\ ConnectCatch(Cur, id, err).closed[id] = closed[id] + 1)
  /\ [][\A id \in Ids :
          /\ (acq[id] = "connecting" /\ acq'[id] \notin {"connecting", "open"})
               => (acq'[id] = "closing" /\ closed'[id] = closed[id] + 1)
          /\ (acq'[id] = "failed" /\ acq[id] # "failed") => acq[id] = "closing"
          /\ (tries'[id] > tries[id] /\ tries[id] > 0) => acq[id] = "closing"]_vars

\* two attempts of a call have failed and were ended, a third is running
C13_Witness == \E id \in Ids : acq[id] = "connecting" /\ closed[id] = 2 /\ tries[id] = 3

(* C14: connectionAddedToPool is emitted by the step in which a connect()   *)
(* call gets its new connection, once, before the client is given to the    *)
(* caller, and a call gets a new connection at most once; no other step of  *)
(* the connect path emits it: not a failed attempt, a retry or a throw, not *)
(* the reuse of an idle client, not a handoff, not a wait timeout.          *)
C14_AddedToPoolOncePerConnection ==
  /\ [](\A id \in Ids :
          /\ acq[id] = "connecting" =>
               /\ ClientConnected(Cur, id).out.ev = <<"connectionAddedToPool">>
               /\ ClientConnected(Cur, id).acq[id] = "open"
               /\ ClientConnected(Cur, id).held[id] + ClientConnected(Cur, id).qheld[id]
                    = Holders(id) + 1
               /\ \A err \in DriverConnectErrors :
                    "connectionAddedToPool" \notin Range(ConnectCatch(Cur, id, err).out.ev)
          /\ acq[id] = "closing" =>
               \A expired \in BOOLEAN :
                 "connectionAddedToPool" \notin Range(AfterConnectFailure(Cur, id, expired).out.ev)
          /\ waitTimer[id] => "connectionAddedToPool" \notin Range(WaitDeadline(Cur, id).out.ev)
          /\ (Holders(id) > 0 \/ released[id]) =>
               \A removeConnection \in BOOLEAN :
                 "connectionAddedToPool" \notin Range(ClientRelease(Cur, id, removeConnection).out.ev))
  /\ [](CanConnect =>
          \A k \in Kinds : "connectionAddedToPool" \notin Range(PoolConnect(Cur, k).out.ev))
  /\ [][\A id \in Ids :
          /\ acq[id] = "open" => acq'[id] = "open"
          /\ (acq'[id] = "open" /\ acq[id] # "open") => acq[id] = "connecting"]_vars

\* one call has its connection, one is in a retry, one has failed
C14_Witness ==
  \E id, j, f \in Ids :
    /\ acq[id] = "open" /\ Holders(id) = 1
    /\ acq[j] = "connecting" /\ retried[j] >= 1
    /\ acq[f] = "failed"

(* C15: a connect() call all of whose attempts failed with an error of      *)
(* retryConnectionErrorCodes fails when it has made                         *)
(* retryConnectionMaxRetries + 1 attempts and emitted                       *)
(* retryConnectionOnError retryConnectionMaxRetries times, and not before:  *)
(* with fewer attempts made it emits the event and starts the next one.     *)
C15_RetriesAreCounted ==
  /\ [](\A id \in Ids :
          (acq[id] = "closing" /\ startups[id] = 0 /\ lastErr[id] \in retryConnectionErrorCodes) =>
            LET R == AfterConnectFailure(Cur, id, FALSE)
            IN /\ tries[id] = retried[id] + 1
               /\ tries[id] <= retryConnectionMaxRetries + 1
               /\ IF tries[id] <= retryConnectionMaxRetries
                  THEN /\ R.out.ev = <<"retryConnectionOnError">>
                       /\ R.acq[id] = "connecting"
                       /\ R.tries[id] = tries[id] + 1
                       /\ R.retried[id] = retried[id] + 1
                  ELSE /\ R.out.ev = <<>>
                       /\ R.acq[id] = "failed"
                       /\ R.out.result = lastErr[id])
  /\ [][\A id \in Ids :
          (acq[id] = "closing" /\ startups[id] = 0 /\ lastErr[id] \in retryConnectionErrorCodes
             /\ acq'[id] = "failed")
            => (tries[id] = retryConnectionMaxRetries + 1
                /\ retried[id] = retryConnectionMaxRetries)]_vars

\* the last of retryConnectionMaxRetries + 1 attempts has timed out
C15_Witness ==
  \E id \in Ids :
    /\ retryConnectionMaxRetries >= 1
    /\ acq[id] = "closing" /\ startups[id] = 0 /\ lastErr[id] = "ERR_PG_CONNECT_TIMEOUT"
    /\ tries[id] = retryConnectionMaxRetries + 1
    /\ retried[id] = retryConnectionMaxRetries

----------------------------------------------------------------------------
\* Client c is with the pool or with another caller in S: idle, handed over (the
\* callers holding it are as many as before the release took one away), emitted
\* to a call that had gone, or removed from the pool.
ReleasedIn(S, c) ==
  \/ c \in Range(S.idleConnections)
  \/ c \notin Range(S.connections)
  \/ S.held[c] + S.qheld[c] = Holders(c)
  \/ c \in S.dropped

(* C16: when the driver query of a _query attempt settles, with a result or *)
(* with an error, the attempt releases its connection once in that same     *)
(* step: the driver query comes first, the connection is back with the pool *)
(* (idle, handed to a waiter or removed) when the result or error is        *)
(* delivered, and idleConnections gains at most one entry.  The release     *)
(* step acquires nothing; the acquire of a retry is a later step, which     *)
(* releases nothing.                                                        *)
C16_QueryReleasesOnce ==
  /\ [](\A c \in Ids, res \in QueryResults :
          qheld[c] > 0 =>
            LET R == QueryFinally(Cur, c, res)
            IN /\ Head(R.out.driver) = "query"
               /\ ReleasedIn(R, c)
               /\ R.held[c] + R.qheld[c] \in {Holders(c) - 1, Holders(c)}
               /\ Count(R.idleConnections, c) <= Count(idleConnections, c) + 1
               /\ R.nextId = nextId
               /\ R.qRetry = qRetry
               /\ R.out.result \in {"", res}
               /\ R.out.result = "" => R.qDrain[res] = qDrain[res] + 1)
  /\ [][\A c \in Ids :
          qheld'[c] < qheld[c] =>
            /\ qheld'[c] = qheld[c] - 1
            /\ \/ c \in Range(idleConnections')
               \/ c \notin Range(connections')
               \/ held'[c] = held[c] + 1
               \/ c \in dropped'
            /\ nextId' = nextId
            /\ qRetry' = qRetry]_vars
  /\ [][(\E e \in RetryableQueryErrors : qRetry'[e] < qRetry[e]) =>
          \A c \in Ids : qheld'[c] >= qheld[c] /\ held'[c] >= held[c]]_vars

\* a query attempt has thrown an error the pool does not reconnect on, or has
\* returned, and its connection is idle again
C16_Witness ==
  \E c \in Ids :
    /\ acq[c] = "open"
    /\ Holders(c) = 0
    /\ c \in Range(idleConnections)
    /\ queries = 0
    /\ nextId = 1
    /\ ~released[c]

----------------------------------------------------------------------------
\* The error res of the driver query matches a reconnect policy that is enabled.
MatchesPolicy(res) ==
  \/ res = "read-only" /\ reconnectOnReadOnlyTransactionError
  \/ res = "not queryable" /\ reconnectOnConnectionError

\* What the attempt of _query holding c does when its driver query settles: on an
\* error of an enabled policy the connection is released with removal and the
\* call goes on to emit the one event of that policy; on any other outcome the
\* connection is released without removal and the outcome is the call's, which
\* has then made its last acquire, driver query and release.
AttemptFollowsPolicy ==
  /\ \A c \in Ids, res \in QueryResults :
        qheld[c] > 0 =>
          LET S0 == [Cur EXCEPT !.qheld[c] = @ - 1]
              R == QueryFinally(Cur, c, res)
          IN IF MatchesPolicy(res)
             THEN /\ PoolFields(R) = PoolFields(ClientRelease(S0, c, TRUE))
                  /\ c \notin Range(R.connections)
                  /\ R.out.driver = <<"query", "end">>
                  /\ R.out.ev = ClientRelease(S0, c, TRUE).out.ev
                  /\ R.out.result = ""
                  /\ R.qDrain = [qDrain EXCEPT ![res] = @ + 1]
                  /\ R.qRetry = qRetry
             ELSE /\ PoolFields(R) = PoolFields(ClientRelease(S0, c, FALSE))
                  /\ R.out.driver = <<"query">> \o ClientRelease(S0, c, FALSE).out.driver
                  /\ R.out.ev = ClientRelease(S0, c, FALSE).out.ev
                  /\ R.out.result = res
                  /\ R.qDrain = qDrain /\ R.qRetry = qRetry
                  /\ R.qFirst = ""
                  /\ \A d \in Ids : R.qheld[d] = 0 /\ R.kind[d] = "user"
  /\ \A e \in RetryableQueryErrors :
        /\ (qDrain[e] > 0 \/ qRetry[e] > 0) => MatchesPolicy(e)
        /\ qDrain[e] > 0 =>
             LET R == QueryAfterRelease(Cur, e)
             IN /\ R.out.ev = <<IF e = "read-only" THEN "queryDeniedForReadOnlyTransaction"
                                ELSE "queryDeniedForConnectionError">>
                /\ R.qRetry[e] = qRetry[e] + 1
                /\ R.qDrain[e] = qDrain[e] - 1

\* The step is an acquire of _query: a connection is being created for it, or an
\* idle one is given to it, or connect() throws because the pool is ending.
QueryAcquires ==
  \/ nextId' = nextId + 1 /\ kind'[nextId'] = "query" /\ acq'[nextId'] = "connecting"
  \/ \E c \in Ids : c \in Range(idleConnections) /\ qheld'[c] = qheld[c] + 1
  \/ result' = "ERR_PG_CONNECT_POOL_ENDED"

(* C17 as stated: a query attempt follows the policies, and every denied    *)
(* attempt is followed by a new acquire.                                    *)
C17_RetriesWheneverDenied ==
  /\ []AttemptFollowsPolicy
  /\ [][\A e \in RetryableQueryErrors : qRetry'[e] < qRetry[e] => QueryAcquires]_vars

(* C17: a query attempt follows the policies: release with removal and one  *)
(* queryDenied event for an error of an enabled policy, release without     *)
(* removal and the outcome delivered otherwise.  A denied attempt is        *)
(* followed by a new acquire when the time since the first denial is within *)
(* the budget of its policy; over the budget the call makes no acquire.  No *)
(* attempt other than the first of a call is made without a denial before.  *)
C17_RetriesWhenDeniedWithinBudget ==
  /\ []AttemptFollowsPolicy
  /\ [][\A e \in RetryableQueryErrors :
          qRetry'[e] < qRetry[e] =>
            IF clock <= QueryBudget(e) THEN QueryAcquires
            ELSE ~QueryAcquires /\ queries' = 0]_vars
  /\ [][(QueryAcquires /\ queries > 0) =>
          \E e \in RetryableQueryErrors : qRetry'[e] < qRetry[e] /\ MatchesPolicy(e)]_vars

\* the second attempt of a query whose first was denied holds its connection
C17_Witness ==
  /\ qFirst = "read-only"
  /\ \E c \in Ids : qheld[c] = 1 /\ acq[c] = "open"
  /\ clock <= QueryBudget("read-only")

----------------------------------------------------------------------------
(* C18: when the budget check of a query finds the time over the budget     *)
(* after several denied attempts, the error thrown to the caller is the     *)
(* error of the first denied attempt of that query, not of the latest.      *)
C18_FirstErrorIsRethrown ==
  \A e \in RetryableQueryErrors :
    (qRetry[e] > 0 /\ clock > QueryBudget(e)) =>
      QueryBudgetCheck(Cur, e, TRUE).out.result = qFirst

----------------------------------------------------------------------------
\* timeSinceLastRun > the timeout option of the policy of e
OverBudget(e) ==
  \/ e = "read-only" /\ clock > readOnlyTransactionReconnectTimeoutMillis
  \/ e = "not queryable" /\ clock > connectionReconnectTimeoutMillis

(* C19: a query whose attempts are denied ends.  After a denial a further   *)
(* attempt is made when the time since the first denial is at most the      *)
(* timeout of the policy of the error, the timeout itself included; when it *)
(* is greater no attempt is made and the call fails with the error of the   *)
(* policy.  A denied query does not stay denied: as the clock advances it   *)
(* ends, and it ends only by an attempt that was not denied, by the budget  *)
(* check or because the pool is ending.                                     *)
C19_DeniedQueryFailsOverBudget ==
  /\ [](\A e \in RetryableQueryErrors :
          qRetry[e] > 0 =>
            LET S1 == [Cur EXCEPT !.qRetry[e] = @ - 1]
                R == QueryBudgetCheck(Cur, e, OverBudget(e))
            IN IF OverBudget(e)
               THEN /\ R.out.result = e
                    /\ PoolFields(R) = PoolFields(Cur)
                    /\ R.qFirst = "" /\ R.qRetry[e] = qRetry[e] - 1
               ELSE /\ PoolFields(R) = PoolFields(PoolConnect(S1, "query"))
                    /\ R.out.result # e)
  /\ [][\A e \in RetryableQueryErrors :
          qRetry'[e] < qRetry[e] =>
            IF OverBudget(e) THEN ~QueryAcquires /\ qFirst' = "" ELSE QueryAcquires]_vars
  /\ [][(qFirst # "" /\ qFirst' = "") =>
          \/ \E c \in Ids : qheld'[c] < qheld[c]
          \/ \E e \in RetryableQueryErrors :
               qRetry'[e] < qRetry[e] /\ (OverBudget(e) \/ isEnding)]_vars
  /\ [][qFirst # "" => clock' >= clock \/ qFirst' = ""]_vars
  /\ (qFirst # "") ~> (qFirst = "")

\* after two denied attempts the time is over the budget of the read-only policy
C19_Witness ==
  /\ qRetry["read-only"] > 0
  /\ qFirst = "read-only"
  /\ faults >= 2
  /\ clock > readOnlyTransactionReconnectTimeoutMillis

----------------------------------------------------------------------------
\* A release of c by a caller holding it would idle the connection.
ReleaseIdles(c) ==
  /\ held[c] > 0
  /\ ~isEnding
  /\ connectionQueue = <<>>
  /\ idleTimeoutMillis > 0

\* The state after the holder of c has released it without removal.
AfterRelease(c) == ClientRelease([Cur EXCEPT !.held[c] = @ - 1, !.released[c] = TRUE], c, FALSE)

\* connect() called in state S returns client d to the caller at once.
Returns(S, d) ==
  LET R == PoolConnect(S, "user")
  IN /\ R.out.result = "client"
     /\ R.held = [S.held EXCEPT ![d] = @ + 1]
     /\ R.nextId = S.nextId

(* C20 as stated: wherever a release idles the connection, a release        *)
(* followed at once by an acquire returns the connection just released.     *)
C20_ReleaseAcquireSameConnection ==
  \A c \in Ids : ReleaseIdles(c) => Returns(AfterRelease(c), c)

(* C20: wherever a release idles the connection, a release followed at once *)
(* by an acquire returns an idle connection without creating one: the       *)
(* connection that has been idle longest, which is the one just released    *)
(* when no other connection was idle before the release.                    *)
C20_ReleaseAcquireOldestIdle ==
  \A c \in Ids :
    ReleaseIdles(c) =>
      /\ Returns(AfterRelease(c), Head(Append(idleConnections, c)))
      /\ idleConnections = <<>> => Returns(AfterRelease(c), c)
      /\ (idleConnections # <<>> /\ Head(idleConnections) # c) => ~Returns(AfterRelease(c), c)

\* a caller holds c while another connection is idle
C20_Witness ==
  \E c, d \in Ids :
    /\ c # d
    /\ ReleaseIdles(c)
    /\ idleConnections = <<d>>
    /\ acq[c] = "open" /\ acq[d] = "open"
    /\ ~misuse

----------------------------------------------------------------------------
(* C21: with idleTimeoutMillis = 0 no connection is ever idle.  A release   *)
(* that finds no waiter queued removes the connection at once: its id       *)
(* leaves connections, client.end() is called, nothing is idled and no idle *)
(* timer armed.  A release that finds a waiter queued (the pool not ending) *)
(* hands the connection to the head of the queue and removes nothing.       *)
C21_ZeroIdleTimeoutNeverIdles ==
  /\ [](idleTimeoutMillis = 0 => (idleConnections = <<>> /\ \A c \in Ids : ~timer[c]))
  /\ [](\A c \in Ids :
          (idleTimeoutMillis = 0 /\ CanRelease(c)) =>
            LET R == ClientRelease(Cur, c, FALSE)
            IN IF connectionQueue = <<>> \/ isEnding
               THEN /\ c \notin Range(R.connections)
                    /\ Len(R.connections) = Len(connections) - Count(connections, c)
                    /\ R.idleConnections = <<>>
                    /\ R.out.driver = <<"end">>
                    /\ "connectionIdle" \notin Range(R.out.ev)
                    /\ R.connectionQueue = connectionQueue
               ELSE /\ R.connectionQueue = Tail(connectionQueue)
                    /\ R.connections = connections
                    /\ R.idleConnections = <<>>
                    /\ R.out.driver = <<>>
                    /\ R.acq[Head(connectionQueue)] = "handed"
                    /\ R.held[c] + R.qheld[c] = Holders(c) + 1)
  /\ [][\A c \in Ids :
          (idleTimeoutMillis = 0 /\ held'[c] < held[c]) =>
            \/ c \notin Range(connections')
            \/ connectionQueue # <<>> /\ connectionQueue' = Tail(connectionQueue)]_vars

\* with idleTimeoutMillis = 0 a connection was released with no waiter queued and
\* is gone from the pool, which has created the next one since
C21_Witness ==
  /\ idleTimeoutMillis = 0
  /\ ~isEnding /\ ~misuse /\ faults = 0
  /\ \E c \in Ids : acq[c] = "open" /\ released[c] /\ c \notin Range(connections)
  /\ connections # <<>>

----------------------------------------------------------------------------
\* The sequence s without the entries equal to x, the others in their order.
Without(s, x) ==
  LET Other(y) == y # x
  IN SelectSeq(s, Other)

(* C22: when the wait-deadline timer of a call fires while the call is      *)
(* queued, the call fails with ERR_PG_CONNECT_POOL_CONNECTION_TIMEOUT and   *)
(* its id, which is in connectionQueue once, is taken out wherever it is:   *)
(* the other ids stay, in their order, and their calls stay queued.  When   *)
(* the call has been handed a client before, the expiry takes nothing out   *)
(* of the queue and settles nothing.  The expiry touches no connection.     *)
C22_DeadlineRemovesOwnEntry ==
  /\ [](\A w \in Ids : Count(connectionQueue, w) <= 1)
  /\ [](\A w \in Ids : acq[w] = "queued" <=> w \in Range(connectionQueue))
  /\ [](\A w \in Ids :
          waitTimer[w] =>
            LET R == WaitDeadline(Cur, w)
            IN /\ R.connectionQueue = Without(connectionQueue, w)
               /\ R.connections = connections
               /\ R.idleConnections = idleConnections
               /\ R.held = held /\ R.qheld = qheld
               /\ \A v \in Ids \ {w} : R.acq[v] = acq[v] /\ R.listener[v] = listener[v]
               /\ IF acq[w] = "queued"
                  THEN /\ R.out.result = "ERR_PG_CONNECT_POOL_CONNECTION_TIMEOUT"
                       /\ R.acq[w] = "timedout"
                       /\ Len(R.connectionQueue) = Len(connectionQueue) - 1
                  ELSE /\ R.out.result = ""
                       /\ R.acq[w] = acq[w]
                       /\ R.connectionQueue = connectionQueue)
  /\ [][\A w \in Ids :
          (acq[w] = "queued" /\ acq'[w] = "timedout") =>
            connectionQueue' = Without(connectionQueue, w)]_vars

\* the second of two queued calls has timed out and the first is still queued
C22_Witness ==
  \E v, w \in Ids :
    /\ v < w
    /\ acq[w] = "timedout"
    /\ acq[v] = "queued"
    /\ connectionQueue = <<v>>

----------------------------------------------------------------------------
\* What the getters of the pool count, and the idle set, in S.
Accounting(S) == <<S.connections, S.idleConnections>>

(* C23: _removeConnection called a second time on a client changes nothing  *)
(* of the accounting: connections (totalCount) and idleConnections          *)
(* (idleCount, the idle set) are as the first call left them.               *)
C23_RemoveIsIdempotent ==
  \A c \in Ids :
    acq[c] = "open" =>
      Accounting(RemoveConnection(RemoveConnection(Cur, c), c))
        = Accounting(RemoveConnection(Cur, c))

----------------------------------------------------------------------------
(* C24: no client is idle while a call is queued.  connect() queues a call  *)
(* only when it finds idleConnections empty, and release idles a client     *)
(* only when it finds connectionQueue empty.                                *)
C24_NoIdleWhileQueued ==
  /\ [](idleCount > 0 => waitingCount = 0)
  /\ [](CanConnect =>
          \A k \in Kinds :
            Len(PoolConnect(Cur, k).connectionQueue) > waitingCount =>
              (idleCount = 0 /\ PoolConnect(Cur, k).idleConnections = <<>>))
  /\ [](\A c \in Ids, removeConnection \in BOOLEAN :
          CanRelease(c) =>
            LET R == ClientRelease(Cur, c, removeConnection)
            IN /\ Len(R.idleConnections) > idleCount =>
                    (waitingCount = 0 /\ R.connectionQueue = <<>>)
               /\ R.idleConnections # <<>> => R.connectionQueue = <<>>)
  /\ [][(waitingCount' > waitingCount => idleCount' = 0)
          /\ (idleCount' > idleCount => waitingCount' = 0)]_vars

\* a client is idle in a pool that has served a queued call by a handoff
C24_Witness ==
  /\ idleCount > 0
  /\ waitingCount = 0
  /\ \E w \in Ids : acq[w] = "handed"
  /\ ~misuse


----------------------------------------------------------------------------
(***************************************************************************)
(* Pool.query's handling of named parameters: one pool.query(text, values) *)
(* call on a new pool, over every text of up to MaxTextLen pieces and over *)
(* an array and every object with keys among Keys as values.               *)
(***************************************************************************)
MaxTextLen == 5

NamedTexts == UNION {[1..n -> Pieces] : n \in 0..MaxTextLen}
NamedValues == {ArrayValues} \cup {ObjectValues(K) : K \in SUBSET Keys}

NamedInit ==
  /\ NewPool
  /\ idleTimeoutMillis = DefaultIdleTimeoutMillis
  /\ retryConnectionMaxRetries = MaxRetries
  /\ reconnectOnReadOnlyTransactionError = TRUE
  /\ reconnectOnConnectionError = TRUE
  /\ reconnectOnDatabaseIsStartingError = TRUE
  /\ budget = MaxFaults
  /\ named \in {[NoCall EXCEPT !.text = text, !.values = values, !.state = "new"] :
                  text \in NamedTexts, values \in NamedValues}

\* pool.query(named.text, named.values), up to the first await of _query, with
\* what it threw or passed to _query put on record
NamedQuery ==
  /\ named.state = "new"
  /\ LET R == PoolQuery(Cur, named.text, named.values)
         passed == R.out.result \notin {"ERR_PG_QUERY_NO_NAMED_PARAMETERS",
                                        "ERR_PG_QUERY_MISSING_QUERY_PARAMETER"}
     IN Install([R EXCEPT !.named =
          [named EXCEPT !.state = "done", !.result = R.out.result,
                        !.sql = IF passed THEN QuerySql(named.text, named.values) ELSE <<>>,
                        !.params = IF passed THEN QueryParams(named.text, named.values) ELSE <<>>,
                        !.missing = QueryMissing(named.text, named.values)]])

NamedNext == NamedQuery

NamedSpec == NamedInit /\ [][NamedNext]_vars

\* The names after an "@" in the text, from left to right.
NamesIn(text) == [i \in 1..Len(MatchFrom(text, 1)) |-> Tail(MatchFrom(text, 1)[i])]

\* The text with every named token replaced by "$" and the number its name has in
\* `tokens`, in one pass from index i.
RECURSIVE Positional(_, _, _)
Positional(text, i, tokens) ==
  IF i > Len(text) THEN <<>>
  ELSE IF text[i] = "@" /\ WordRun(text, i + 1) > 0
  THEN <<"$", DigitPieces[IndexOf(tokens, SubSeq(text, i + 1, i + WordRun(text, i + 1)))]>>
         \o Positional(text, i + WordRun(text, i + 1) + 1, tokens)
  ELSE <<text[i]>> \o Positional(text, i + 1, tokens)

\* s is a proper prefix of t
ProperPrefix(s, t) == Len(s) < Len(t) /\ SubSeq(t, 1, Len(s)) = s

\* C25: a query with a non-empty values object that passes the checks hands _query
\* the text in which the k-th distinct named token, in the order of first
\* occurrence, is $k at each of its occurrences (also when one name is a prefix of
\* another), and an array of exactly one value per distinct token, values[token_1]
\* to values[token_N]; keys that the text does not name change nothing, and no
\* named token is left in the text.
C25_NamedBecomePositional ==
  (named.state = "done" /\ ~named.values.positional /\ named.values.keys # {} /\ named.result = "") =>
    LET tokens == Tokens(named.text)
        names == NamesIn(named.text)
    IN /\ Range(tokens) = Range(names)
       /\ Len(tokens) = Cardinality(Range(names))
       /\ \A k, l \in 1..Len(tokens) : k < l => IndexOf(names, tokens[k]) < IndexOf(names, tokens[l])
       /\ named.sql = Positional(named.text, 1, tokens)
       /\ MatchFrom(named.sql, 1) = <<>>
       /\ Len(named.params) = Len(tokens)
       /\ \A k \in 1..Len(tokens) :
            tokens[k] \in named.values.keys => named.params[k] = named.values.of[tokens[k]]
       /\ LET used == named.values.keys \cap Range(tokens)
          IN used # {} => /\ named.sql = QuerySql(named.text, ObjectValues(used))
                          /\ named.params = QueryParams(named.text, ObjectValues(used))

\* a name and a longer name it is a prefix of were both rewritten, in the order
\* longer first, with a key the text does not name
C25_Witness ==
  /\ named.state = "done" /\ named.result = ""
  /\ named.text = <<"@", "a", "b", "@", "a">>
  /\ named.values.keys = Keys
  /\ named.sql = <<"$", "1", "$", "2">>
  /\ named.params = <<[value |-> <<"a", "b">>], [value |-> <<"a">>]>>
  /\ ProperPrefix(Tokens(named.text)[2], Tokens(named.text)[1])


\* The pool after pool.query is the new pool: nothing acquired, created or queued.
NothingAcquired ==
  /\ connections = <<>> /\ idleConnections = <<>> /\ connectionQueue = <<>> /\ nextId = 0
  /\ \A i \in Ids : acq[i] = "none" /\ held[i] = 0 /\ qheld[i] = 0 /\ ~hooked[i]

\* The names in the text that are no key of the values object, in first-seen order.
MissingKeys(text, values) == SelectSeq(Unique(NamesIn(text)), LAMBDA name : name \notin values.keys)

\* C26: with a non-empty values object, a text that names a token whose key the
\* object lacks fails with ERR_PG_QUERY_MISSING_QUERY_PARAMETER and the missing keys
\* in first-seen order, a text with no named token fails with
\* ERR_PG_QUERY_NO_NAMED_PARAMETERS, and a query that fails so acquires nothing,
\* calls no driver and leaves the pool as it was.
C26_FailsBeforeAcquire ==
  /\ []((named.state = "new" /\ ~named.values.positional /\ named.values.keys # {}) =>
          LET R == PoolQuery(Cur, named.text, named.values)
              missing == MissingKeys(named.text, named.values)
          IN /\ NamesIn(named.text) = <<>> => R.out.result = "ERR_PG_QUERY_NO_NAMED_PARAMETERS"
             /\ missing # <<>> => /\ R.out.result = "ERR_PG_QUERY_MISSING_QUERY_PARAMETER"
                                  /\ QueryMissing(named.text, named.values) = missing
             /\ (NamesIn(named.text) = <<>> \/ missing # <<>>) =>
                  /\ PoolFields(R) = PoolFields(Cur)
                  /\ R.out.driver = <<>> /\ R.out.ev = <<>>)
  /\ []((named.state = "done" /\ ~named.values.positional /\ named.values.keys # {}
         /\ (NamesIn(named.text) = <<>> \/ MissingKeys(named.text, named.values) # <<>>)) =>
           (named.result # "" /\ named.missing = MissingKeys(named.text, named.values) /\ NothingAcquired))


\* The clients some caller holds, and the ids whose _createConnection is running.
HeldIds == {c \in Ids : Holders(c) > 0}
ConnectingIds == {c \in Ids : acq[c] \in {"connecting", "closing", "failed"}}

\* C27: in every state no client is both idle and held, the ids counted by
\* totalCount are those of the idle, the held and the connecting clients,
\* idleCount is at most totalCount, and with nothing held or connecting the two
\* are equal.
C27_IdleHeldConnectingPartition ==
  /\ Range(idleConnections) \cap HeldIds = {}
  /\ Range(idleConnections) \cup HeldIds \cup {c \in Ids : acq[c] = "connecting"} \subseteq Range(connections)
  /\ Range(connections) \subseteq Range(idleConnections) \cup HeldIds \cup ConnectingIds
  /\ idleCount <= totalCount
  /\ (HeldIds = {} /\ ConnectingIds = {}) => idleCount = totalCount


\* C28: on a pool that is not ending and has an idle connection, connect() returns
\* the head of the idle set: it takes it out of the set, cancels its idle timer and
\* emits idleConnectionActivated, creates no connection and queues nothing, and
\* totalCount stays as it was.
C28_AcquirePrefersIdle ==
  /\ []((~isEnding /\ idleConnections # <<>>) =>
          \A k \in Kinds :
            LET c == Head(idleConnections)
                R == PoolConnect(Cur, k)
            IN /\ R.out.result = "client"
               /\ R.out.ev = <<"idleConnectionActivated">>
               /\ R.out.driver = <<>>
               /\ R.idleConnections = Tail(idleConnections)
               /\ ~R.timer[c]
               /\ R.held[c] + R.qheld[c] = Holders(c) + 1
               /\ \A d \in Ids \ {c} : R.held[d] = held[d] /\ R.qheld[d] = qheld[d] /\ R.timer[d] = timer[d]
               /\ R.connections = connections
               /\ R.connectionQueue = connectionQueue
               /\ R.nextId = nextId
               /\ R.acq = acq)
  /\ [][(~isEnding /\ idleConnections # <<>>) =>
          (nextId' = nextId /\ Len(connections') <= totalCount /\ Len(connectionQueue') <= waitingCount)]_vars

\* two connections are idle, their timers armed, and a caller holds a third
C28_Witness ==
  /\ ~isEnding /\ ~misuse
  /\ \E c, d \in Ids : c # d /\ idleConnections = <<c, d>> /\ timer[c] /\ timer[d]
  /\ TotalHolders > 0

\* Some idle timer of client c is armed.
Armed(c) == timer[c] \/ leaked[c] > 0

\* C29: an idle timer of a connection is armed exactly while the connection is in
\* the idle set, so that no idle timer is armed on a connection a caller holds
\* and an expiry never removes a held connection.
C29_IdleTimerWhileIdle ==
  \A c \in Ids :
    /\ Armed(c) <=> c \in Range(idleConnections)
    /\ Armed(c) => Holders(c) = 0

\* C30: the wait-deadline timer of a queued connect() is cancelled when the call
\* is handed a connection: no timer of a call that has got its connection is
\* armed, and the deadline fires only for calls that are still queued.
C30_TimersCancelledOnExit ==
  /\ [](\A w \in Ids : acq[w] = "handed" => ~waitTimer[w])
  /\ [][\A w \in Ids : (waitTimer[w] /\ ~waitTimer'[w]) => acq[w] = "queued"]_vars

----------------------------------------------------------------------------
(* C31 as stated: the step in which a query attempt fails with an error the *)
(* pool reconnects on takes every connection that is idle at that moment   *)
(* out of the idle set and out of connections.                             *)
C31_DrainedWhenAttemptFails ==
  [][(\E e \in RetryableQueryErrors : qDrain'[e] > qDrain[e]) =>
       \A d \in Range(idleConnections) :
         d \notin Range(idleConnections') /\ d \notin Range(connections')]_vars

(* C31: the attempt that failed first releases its connection for removal;  *)
(* the drain that follows that release takes every connection that is idle *)
(* when it runs out of the idle set and out of connections in one step,     *)
(* ends each and cancels its idle timer, and touches no held connection,   *)
(* so that an acquire right after it is given none of them.                *)
C31_DrainTakesAllIdleAtOnce ==
  /\ [](\A e \in RetryableQueryErrors :
          qDrain[e] > 0 =>
            LET R == QueryAfterRelease(Cur, e)
            IN /\ R.idleConnections = <<>>
               /\ \A d \in Range(idleConnections) : d \notin Range(R.connections) /\ ~R.timer[d]
               /\ Len(R.connections) = totalCount - Cardinality(Range(idleConnections) \cap Range(connections))
               /\ Len(SelectSeq(R.out.driver, LAMBDA x : x = "end")) = idleCount
               /\ R.held = held /\ R.qheld = qheld /\ R.connectionQueue = connectionQueue
               /\ \A k \in Kinds : PoolConnect(R, k).out.result # "client")
  /\ [][(\E e \in RetryableQueryErrors : qDrain'[e] < qDrain[e]) =>
         /\ idleConnections' = <<>>
         /\ \A d \in Range(idleConnections) : d \notin Range(connections')]_vars

\* a denied attempt has released its connection, and two other connections are idle
C31_Witness ==
  /\ \E e \in RetryableQueryErrors : qDrain[e] > 0
  /\ \E c, d \in Ids : c # d /\ idleConnections = <<c, d>>
  /\ ~misuse /\ ~isEnding

----------------------------------------------------------------------------
(***************************************************************************)
(* The retries of _createConnection alone: one connect() call at a time on *)
(* a pool with a free place, the driver failing attempts up to             *)
(* StartupFaults times with errors of every shape (with and without a      *)
(* code, listed or not, the message naming a listed code or not, the       *)
(* database starting up or not), every value of retryConnectionMaxRetries  *)
(* up to MaxRetries, reconnectOnDatabaseIsStartingError on and off, and a  *)
(* clock that runs from the moment databaseStartupStartTime is taken.      *)
(***************************************************************************)
StartupFaults == 4

\* options.databaseStartupTimeoutMillis, in ticks of the model's clock
databaseStartupTimeoutMillis == 1

StartupErrors ==
  {"starting up", "other", "ENOTFOUND", "timeout expired", "ECONNRESET, timeout expired",
   "starting up, timeout expired", "EAI_AGAIN, starting up"}

\* The connect() calls whose _createConnection is running, in S.
InFlight(S) == {id \in Ids : S.acq[id] \in {"connecting", "closing"}}

\* databaseStartupStartTime of the call with id `id` is set.
StartTimeTaken(S, id) == id \in InFlight(S) /\ S.startups[id] > 0

\* The clock reads the time since databaseStartupStartTime of the running call, and
\* 0 when no running call has taken it.
Timed(S) == [S EXCEPT !.clock = IF \E id \in Ids : StartTimeTaken(S, id) THEN @ ELSE 0]

\* The comparison with `>=`: the budget itself is over it
StartupExpiredAtBudget(id) == startups[id] > 0 /\ clock >= databaseStartupTimeoutMillis

\* timeSinceFirstConnectAttempt > databaseStartupTimeoutMillis, by the clock
\* (waitForDatabaseStartupMillis is 0: no time passes within the catch)
StartupExpired(id) == startups[id] > 0 /\ clock > databaseStartupTimeoutMillis

StartupInit ==
  /\ NewPool
  /\ named = NoCall
  /\ idleTimeoutMillis = DefaultIdleTimeoutMillis
  /\ retryConnectionMaxRetries \in 0..MaxRetries
  /\ reconnectOnReadOnlyTransactionError = TRUE
  /\ reconnectOnConnectionError = TRUE
  /\ reconnectOnDatabaseIsStartingError \in BOOLEAN
  /\ budget = StartupFaults

\* pool.connect() while no other connect() is in flight and a place is free
ConnectAlone ==
  /\ InFlight(Cur) = {}
  /\ idleConnections = <<>> /\ totalCount < PoolSize /\ nextId < MaxIds
  /\ Connect

\* client.connect() resolves
StartupConnectSucceed(id) ==
  /\ acq[id] = "connecting"
  /\ Install(Timed(ClientConnected(Cur, id)))

\* client.end() of the failed attempt settles: retry or throw, by the clock
StartupRetry(id) ==
  /\ acq[id] = "closing"
  /\ Install(Timed(AfterConnectFailure(Cur, id, StartupExpired(id))))

\* time passes for the call that has taken databaseStartupStartTime
StartupTick ==
  /\ \E id \in Ids : StartTimeTaken(Cur, id)
  /\ clock <= databaseStartupTimeoutMillis
  /\ Install([Cur EXCEPT !.clock = @ + 1])

StartupNext ==
  \/ ConnectAlone
  \/ \E id \in Ids : StartupConnectSucceed(id)
  \/ \E id \in Ids, err \in StartupErrors : ConnectFail(id, err)
  \/ \E id \in Ids : ConnectTimeout(id)
  \/ \E id \in Ids : StartupRetry(id)
  \/ StartupTick

StartupSpec == StartupInit /\ [][StartupNext]_vars

\* The driver settles what it was asked, the steps of the catch run, time passes.
StartupFairSpec ==
  /\ StartupSpec
  /\ WF_vars(StartupTick)
  /\ WF_vars(\E id \in Ids : StartupConnectSucceed(id))
  /\ WF_vars(\E id \in Ids : StartupRetry(id))

\* The catch of _createConnection, run for the failed attempt of id, takes the
\* code-retry: retryConnectionOnError, and the next attempt with retryAttempt + 1.
CodeRetried(id) ==
  LET R == AfterConnectFailure(Cur, id, StartupExpired(id))
  IN /\ R.out.ev = <<"retryConnectionOnError">>
     /\ R.acq[id] = "connecting"
     /\ R.attempt[id] = attempt[id] + 1
     /\ R.retried[id] = retried[id] + 1

\* The message of ex names one of retryConnectionErrorCodes.
MessageNamesCode(ex) == \E errorCode \in retryConnectionErrorCodes : Includes(ex.message, errorCode)

(* C32 as stated: a failed attempt is retried on its code exactly when       *)
(* retryConnectionMaxRetries > 0, the code of the error is listed or its    *)
(* message names a listed code, and retryAttempt < retryConnectionMaxRetries.*)
C32_RetryOnCodeOrMessage ==
  \A id \in Ids :
    acq[id] = "closing" =>
      (CodeRetried(id) <=>
         /\ retryConnectionMaxRetries > 0
         /\ (ErrorOf(lastErr[id]).code \in retryConnectionErrorCodes \/ MessageNamesCode(ErrorOf(lastErr[id])))
         /\ attempt[id] < retryConnectionMaxRetries)

(* C32: a failed attempt is retried on its code exactly when                 *)
(* retryConnectionMaxRetries > 0, retryAttempt < retryConnectionMaxRetries  *)
(* and the error has a code that is listed or has no code and a message     *)
(* that names a listed code; the message of an error with a code is not     *)
(* looked at.                                                               *)
C32_RetryOnCodeElseMessage ==
  /\ [](\A id \in Ids :
          acq[id] = "closing" =>
            LET ex == ErrorOf(lastErr[id])
            IN CodeRetried(id) <=>
                 /\ retryConnectionMaxRetries > 0
                 /\ \/ ex.code # "" /\ ex.code \in retryConnectionErrorCodes
                    \/ ex.code = "" /\ MessageNamesCode(ex)
                 /\ attempt[id] < retryConnectionMaxRetries)
  /\ [][\A id \in Ids :
          retried'[id] > retried[id] =>
            LET ex == ErrorOf(lastErr[id])
            IN /\ acq[id] = "closing" /\ acq'[id] = "connecting"
               /\ retryConnectionMaxRetries > 0 /\ attempt[id] < retryConnectionMaxRetries
               /\ attempt'[id] = attempt[id] + 1
               /\ IF ex.code # "" THEN ex.code \in retryConnectionErrorCodes ELSE MessageNamesCode(ex)]_vars

\* an attempt that could be retried failed with an unlisted code and a message
\* that names a listed code, after an earlier call has failed
C32_Witness ==
  \E id \in Ids :
    /\ acq[id] = "closing" /\ lastErr[id] = "ECONNRESET, timeout expired"
    /\ retryConnectionMaxRetries > 0 /\ attempt[id] < retryConnectionMaxRetries
    /\ \E j \in Ids : j < id /\ acq[j] = "failed"

\* The error qualifies for the code-retry and for the database-starting retry.
QualifiesForBoth(err) == RetryConnection(Cur, err) /\ reconnectOnDatabaseIsStartingError /\ IsStartingUp(err)

(* C33 as stated, in its last part: the startup budget is measured from the *)
(* first starting-up error of the call, so that databaseStartupStartTime is *)
(* set once a starting-up error of the call has been caught and the call    *)
(* goes on.                                                                 *)
C33_BudgetFromFirstStartingError ==
  [][\A id \in Ids :
       (acq[id] = "closing" /\ acq'[id] = "connecting"
          /\ reconnectOnDatabaseIsStartingError /\ IsStartingUp(lastErr[id]))
         => StartTimeTaken(Cur', id)]_vars

(* C33: an error that qualifies for both retries is retried on its code     *)
(* while retryAttempt < retryConnectionMaxRetries, without                  *)
(* waitingForDatabaseToStart and without taking databaseStartupStartTime;   *)
(* a retry on the starting-up path starts the next attempt with             *)
(* retryAttempt 0, a retry on the code keeps databaseStartupStartTime, and  *)
(* once taken (by the first failure that is handled on the starting-up      *)
(* path) the start time stays until the call settles.                       *)
C33_CodeRetryFirstBudgetsApart ==
  /\ [](\A id \in Ids :
          (acq[id] = "closing" /\ QualifiesForBoth(lastErr[id])) =>
            LET R == AfterConnectFailure(Cur, id, StartupExpired(id))
            IN IF attempt[id] < retryConnectionMaxRetries
               THEN CodeRetried(id) /\ R.startups[id] = startups[id]
               ELSE /\ R.out.ev = <<"waitingForDatabaseToStart">>
                    /\ IF StartupExpired(id) THEN R.acq[id] = "failed"
                       ELSE R.acq[id] = "connecting" /\ R.attempt[id] = 0
                            /\ R.startups[id] = startups[id] + 1)
  /\ [][\A id \in Ids :
          /\ startups'[id] > startups[id] =>
               (attempt'[id] = 0 /\ retried'[id] = retried[id] /\ acq'[id] = "connecting"
                /\ ~(RetryConnection(Cur, lastErr[id]) /\ attempt[id] < retryConnectionMaxRetries))
          /\ retried'[id] > retried[id] =>
               (startups'[id] = startups[id] /\ clock' = clock
                /\ (StartTimeTaken(Cur, id) <=> StartTimeTaken(Cur', id)))
          /\ (StartTimeTaken(Cur, id) /\ id \in InFlight(Cur')) =>
               (StartTimeTaken(Cur', id) /\ clock' >= clock)]_vars

\* a call has retried on the starting-up path and then on the code, time having
\* passed since the first
C33_Witness ==
  \E id \in Ids :
    /\ acq[id] = "connecting" /\ startups[id] > 0 /\ attempt[id] > 0 /\ clock > 0
    /\ retryConnectionMaxRetries > 0

(* C34: with reconnectOnDatabaseIsStartingError on, each attempt that fails *)
(* with "the database system is starting up" emits                          *)
(* waitingForDatabaseToStart; the call makes a further attempt when the     *)
(* time since the first such failure is at most                             *)
(* databaseStartupTimeoutMillis, the timeout itself included, and fails     *)
(* with the error when it is greater; as the clock advances the call ends.  *)
(* With the option off the first such failure fails the call: one attempt.  *)
C34_StartupRetriesWithinBudget ==
  /\ [](\A id \in Ids :
          (acq[id] = "closing" /\ lastErr[id] = "starting up") =>
            LET R == AfterConnectFailure(Cur, id, StartupExpired(id))
            IN IF ~reconnectOnDatabaseIsStartingError
               THEN /\ R.out.ev = <<>> /\ R.acq[id] = "failed" /\ R.out.result = "starting up"
                    /\ retried[id] = 0 => tries[id] = 1
               ELSE /\ R.out.ev = <<"waitingForDatabaseToStart">>
                    /\ IF startups[id] > 0 /\ clock > databaseStartupTimeoutMillis
                       THEN /\ R.acq[id] = "failed" /\ R.out.result = "starting up"
                            /\ id \notin Range(R.connections)
                       ELSE /\ R.acq[id] = "connecting" /\ R.tries[id] = tries[id] + 1
                            /\ R.startups[id] = startups[id] + 1
                            /\ R.connections = connections)
  /\ [][\A id \in Ids :
          (acq[id] = "closing" /\ lastErr[id] = "starting up") =>
            /\ acq'[id] = "connecting" =>
                 (reconnectOnDatabaseIsStartingError /\ clock <= databaseStartupTimeoutMillis)
            /\ acq'[id] = "failed" =>
                 (~reconnectOnDatabaseIsStartingError \/ clock > databaseStartupTimeoutMillis)]_vars
  /\ (InFlight(Cur) # {}) ~> (InFlight(Cur) = {})

\* a second attempt has failed with the database starting up when the time since
\* the first is the timeout itself
C34_Witness ==
  \E id \in Ids :
    /\ acq[id] = "closing" /\ lastErr[id] = "starting up"
    /\ reconnectOnDatabaseIsStartingError
    /\ startups[id] >= 1 /\ retried[id] = 0
    /\ clock = databaseStartupTimeoutMillis

(* C35: `error` from the driver of a pooled connection removes the          *)
(* connection (an idle entry of it, its id in connections, its error hook)  *)
(* and then emits the pool's `error` once, as the last event; when the      *)
(* connection has been removed, `error` from its driver emits nothing and   *)
(* changes no field of the pool.                                            *)
C35_ErrorRemovesThenEmitsOnce ==
  \A c \in Ids :
    acq[c] = "open" =>
      LET R == ClientEmitError(Cur, c)
      IN IF hooked[c]
         THEN /\ R.idleConnections = RemoveFirst(idleConnections, c)
              /\ Count(idleConnections, c) <= 1 => c \notin Range(R.idleConnections)
              /\ c \notin Range(R.connections)
              /\ ~R.hooked[c] /\ ~R.timer[c]
              /\ Count(R.out.ev, "error") = 1
              /\ R.out.ev[Len(R.out.ev)] = "error"
              /\ R.out.ev[Len(R.out.ev) - 1] = "connectionRemovedFromPool"
              /\ LET R2 == ClientEmitError([R EXCEPT !.out = NoOutput], c)
                 IN R2.out = NoOutput /\ PoolFields(R2) = PoolFields(R)
         ELSE /\ R.out = NoOutput
              /\ PoolFields(R) = PoolFields(Cur)
              /\ c \notin Range(connections)

\* the driver of a connection its caller holds has emitted `error`: nothing else
\* removes a connection that is held and was never released
C35_Witness ==
  \E c \in Ids :
    /\ acq[c] = "open" /\ ~hooked[c] /\ ~misuse
    /\ Holders(c) > 0 /\ ~released[c]
    /\ c \notin Range(connections) /\ c \notin Range(idleConnections)

(* C36: every call of _removeConnection emits connectionRemovedFromPool     *)
(* once, as its last event, after its one client.end(); it emits            *)
(* connectionRemovedFromIdlePool exactly when the client is in              *)
(* idleConnections at the call; and the removal of a client some caller    *)
(* holds emits no connectionRemovedFromIdlePool.                            *)
C36_RemovalEvents ==
  \A c \in Ids :
    acq[c] = "open" =>
      LET R == RemoveConnection(Cur, c)
      IN /\ Count(R.out.ev, "connectionRemovedFromPool") = 1
         /\ R.out.ev[Len(R.out.ev)] = "connectionRemovedFromPool"
         /\ R.out.driver = <<"end">>
         /\ ("connectionRemovedFromIdlePool" \in Range(R.out.ev)) <=> (c \in Range(idleConnections))
         /\ Holders(c) > 0 => "connectionRemovedFromIdlePool" \notin Range(R.out.ev)

\* _removeConnection has been called on the connected client c: only it takes the
\* error hook off.
Removed(c) == acq[c] = "open" /\ ~hooked[c]

(* C37: a connection that has been removed is, from then on, never put in   *)
(* idleConnections and never given to a caller, queued or not, also when    *)
(* its holder releases it after the error hook removed it.                  *)
C37_RemovedIsGoneForGood ==
  [][\A c \in Ids :
       Removed(c) =>
         /\ Count(idleConnections', c) <= Count(idleConnections, c)
         /\ held'[c] <= held[c]
         /\ qheld'[c] <= qheld[c]]_vars

(* C38: whenever a call is queued the pool is full: waitingCount > 0        *)
(* implies totalCount = poolSize, also after a held connection was released *)
(* with removeConnection or removed by its error hook.                      *)
C38_QueuedOnlyWhileFull == waitingCount > 0 => totalCount = PoolSize

\* The queued calls, oldest first.
Queued == SelectSeq(connectionQueue, LAMBDA w : acq[w] = "queued")

(* C39: while calls are queued, a client is given only to the oldest queued *)
(* call, or to a call that began before every queued call did (the ids are  *)
(* drawn in the order the calls begin): a call that begins while another is *)
(* queued is given no client, idle, new or handed over, before that one is  *)
(* resolved.                                                                *)
C39_NoNewcomerOvertakesQueue ==
  [][\A c \in Ids :
       (Queued # <<>> /\ held'[c] + qheld'[c] > held[c] + qheld[c]) =>
         \/ acq'[Head(Queued)] = "handed"
         \/ /\ acq[c] = "connecting" /\ acq'[c] = "open"
            /\ \A i \in 1..Len(Queued) : c < Queued[i]]_vars

----------------------------------------------------------------------------
(***************************************************************************)
(* Connect with retry and the clients of the failed attempts.  Every       *)
(* attempt of _createConnection makes a new driver client with the same    *)
(* uniqueId and its own errorHandler, and the catch destroys and ends the  *)
(* client of a failed attempt without taking its errorHandler off.         *)
(***************************************************************************)
\* _removeConnection called with the client of an earlier, failed attempt of id:
\* the listener and the idle timer it handles are those of that client; the
\* searches of idleConnections and connections are by uniqueId.
RemoveEarlierClient(S, id) ==
  LET S1 == [S EXCEPT !.idleConnections = RemoveFirst(@, id)]
      S2 == IF IndexOf(S.idleConnections, id) > 0
            THEN Emit(S1, "connectionRemovedFromIdlePool") ELSE S1
  IN Emit([S2 EXCEPT !.connections = RemoveFirst(@, id), !.out.driver = Append(@, "end")],
          "connectionRemovedFromPool")

\* errorHandler of the client of an earlier, failed attempt of id
EarlierErrorHandler(S, id) == Emit(RemoveEarlierClient(S, id), "error")

\* The driver client of an earlier failed attempt of id emits `error` while a later
\* attempt is connecting or connected.  Followed while the id is counted: the
\* event is then the first of its kind for the id, so the errorHandler of that
\* client is still listening.
EarlierClientError(id) ==
  /\ closed[id] > 0
  /\ acq[id] \in {"connecting", "open"}
  /\ id \in Range(connections)
  /\ faults < budget
  /\ Install(EarlierErrorHandler([Cur EXCEPT !.faults = @ + 1], id))

RetryNext ==
  \/ ConnNext
  \/ \E id \in Ids : EarlierClientError(id)

RetrySpec == ConnInit /\ [][RetryNext]_vars

(* C40: `error` from the driver client of an earlier failed attempt changes *)
(* nothing of the accounting: while a later attempt with the id is          *)
(* connecting, or connected and not removed, the id is in connections, and  *)
(* the connection stays in idleConnections while its idle timer is armed.   *)
C40_EarlierClientErrorIsNoOp ==
  \A id \in Ids :
    closed[id] > 0 =>
      /\ acq[id] = "connecting" => id \in Range(connections)
      /\ (acq[id] = "open" /\ hooked[id]) => id \in Range(connections)
      /\ (acq[id] = "open" /\ hooked[id] /\ timer[id]) => id \in Range(idleConnections)
====
